---------------------------- MODULE Spec2Model ----------------------------
(***************************************************************************)
(* A model of the sandboxed execution engine (rust-engine): the linear     *)
(* memory, the capability set, the syscall trap, the sandbox and the ABI   *)
(* entry points.  Every subsystem has its own next-state relation and      *)
(* specification over the shared variables.                                *)
(*                                                                         *)
(* Machine integers are scaled: the source's u32 is 2*HalfBits bits wide   *)
(* here, and PAGE_SIZE and MAX_PAGES are 2^HalfBits each, as in the source *)
(* (2^16 * 2^16 = 2^32), so that MAX_PAGES * PAGE_SIZE is exactly one more *)
(* than the largest u32.  Arithmetic that the source does in u32 either    *)
(* panics (overflow checks on, the debug profile) or wraps (overflow       *)
(* checks off, the release profile); overflow_checks says which.           *)
(***************************************************************************)
EXTENDS Integers, Sequences, FiniteSets, TLC

VARIABLES
    overflow_checks,   \* TRUE: arithmetic overflow panics; FALSE: it wraps
    mem,               \* the LinearMemory, or NoMem before a successful new
    mem_result,        \* what the last LinearMemory operation returned
    mem_writes,        \* successful writes so far (bounded by MaxWrites)
    capset,            \* a CapabilitySet of its own (capabilities.rs)
    caps_result,       \* what the last CapabilitySet call returned
    now,               \* time elapsed since Sandbox::new, in clock ticks
    sandbox,           \* the Sandbox (the one a WasmABI owns)
    sb_result,         \* what the last Sandbox / WasmABI call returned
    sb_errors,         \* how many Sandbox / WasmABI calls have returned an error
    sb_ops,            \* how many Sandbox / WasmABI calls were made
    host_effects,      \* what the HostInterface was made to do, in order
    bpm,               \* the BreakpointManager (debugger/breakpoints.rs)
    bp_result,         \* what the last BreakpointManager call returned
    bp_returned,       \* the ids that set has returned so far
    tracer,            \* the ExecutionTracer (debugger/tracer.rs)
    tr_history,        \* every entry appended to each buffer of the trace, in order
    handled,           \* the calls SyscallTrap::handle was called with directly, in order
    policy,            \* a SecurityPolicy, the one a PolicyBuilder holds (sandbox/policy.rs)
    policy_result,     \* what the last call on the policy returned
    dbg,               \* the WasmDebugger around bpm and tracer: enabled, inspector, position
    dbg_result,        \* what the last step or continue_execution returned
    dbg_calls,         \* how many calls of step and continue_execution were made
    parse_input,       \* the bytes WasmParser::parse was last called with (parser.rs)
    parse_result,      \* what it returned
    sa_module,         \* the module StaticAnalyzer::analyze is called with (static_analysis)
    sa_result,         \* what it returned
    addr_places,       \* the two places whose addresses are computed (debugger/core.rs)
    addr_result,       \* the two addresses, and what resolve_address makes of the first
    cap_policy,        \* a CapabilityPolicy (sandbox/capabilities.rs)
    cpol_result,       \* what apply_to made of capset, or the set create_capability_set returned
    session,           \* a DebugSession (debugger/session.rs)
    session_ids,       \* the ids add_bookmark and add_note have returned, in order
    manager,           \* a SessionManager (debugger/session.rs)
    mgr_result,        \* what the last call on the manager returned
    counter,           \* an InstructionCounter (sandbox/limits.rs)
    ctr_result,        \* what the last call on the counter returned
    policy_manager,    \* a PolicyManager (sandbox/policy.rs)
    pm_result          \* what the last call on the PolicyManager returned

mem_vars == <<mem, mem_result, mem_writes>>
caps_vars == <<capset, caps_result>>
sb_vars == <<now, sandbox, sb_result, sb_errors, sb_ops, host_effects>>
bp_vars == <<bpm, bp_result, bp_returned>>
tr_vars == <<tracer, tr_history>>
trap_vars == <<handled>>
policy_vars == <<policy, policy_result>>
dbg_vars == <<dbg, dbg_result, dbg_calls>>
parser_vars == <<parse_input, parse_result>>
sa_vars == <<sa_module, sa_result>>
addr_vars == <<addr_places, addr_result>>
cpol_vars == <<cap_policy, cpol_result>>
sess_vars == <<session, session_ids>>
mgr_vars == <<manager, mgr_result>>
ctr_vars == <<counter, ctr_result>>
pm_vars == <<policy_manager, pm_result>>

\* the variables of the parts added last
more_vars == <<addr_vars, cpol_vars, sess_vars, mgr_vars, ctr_vars, pm_vars>>

\* the variables of the parts added to the sandbox, for the calls that are not theirs
ext_vars == <<bp_vars, tr_vars, trap_vars, policy_vars, dbg_vars, parser_vars, sa_vars,
              more_vars>>
vars == <<overflow_checks, mem_vars, caps_vars, sb_vars, ext_vars>>

\* what a BreakpointManager call leaves alone
frame_bp == <<overflow_checks, mem_vars, caps_vars, sb_vars, tr_vars, trap_vars, policy_vars,
              dbg_vars, parser_vars, sa_vars,
              more_vars>>
\* what an ExecutionTracer call leaves alone
frame_tr == <<overflow_checks, mem_vars, caps_vars, sb_vars, bp_vars, trap_vars, policy_vars,
              dbg_vars, parser_vars, sa_vars,
              more_vars>>
\* what a call of SyscallTrap::handle on the sandbox's trap leaves alone
frame_trap == <<overflow_checks, mem_vars, caps_vars, now, sb_result, sb_errors, sb_ops,
                host_effects, bp_vars, tr_vars, policy_vars, dbg_vars, parser_vars, sa_vars,
              more_vars>>
\* what a call on the policy leaves alone
frame_policy == <<overflow_checks, mem_vars, caps_vars, sb_vars, bp_vars, tr_vars, trap_vars,
                  dbg_vars, parser_vars, sa_vars,
              more_vars>>
\* what a WasmDebugger call leaves alone, its breakpoints and its tracer apart
frame_dbg == <<overflow_checks, mem_vars, caps_vars, sb_vars, trap_vars, policy_vars,
               bp_result, bp_returned, parser_vars, sa_vars,
              more_vars>>
\* what a call of StaticAnalyzer::analyze leaves alone
frame_sa == <<overflow_checks, mem_vars, caps_vars, sb_vars, bp_vars, tr_vars, trap_vars,
              policy_vars, dbg_vars, parser_vars,
              more_vars>>
\* what a call of WasmParser::parse leaves alone
frame_parser == <<overflow_checks, mem_vars, caps_vars, sb_vars, bp_vars, tr_vars, trap_vars,
                  policy_vars, dbg_vars, sa_vars,
              more_vars>>
\* what the computation of an address leaves alone
ext_but_addr == <<bp_vars, tr_vars, trap_vars, policy_vars, dbg_vars,
                  parser_vars, sa_vars, cpol_vars, sess_vars, mgr_vars,
                  ctr_vars, pm_vars>>
frame_addr == <<overflow_checks, mem_vars, caps_vars, sb_vars, ext_but_addr>>
\* what a call on the CapabilityPolicy leaves alone
ext_but_cpol == <<bp_vars, tr_vars, trap_vars, policy_vars, dbg_vars,
                  parser_vars, sa_vars, addr_vars, sess_vars, mgr_vars,
                  ctr_vars, pm_vars>>
frame_cpol == <<overflow_checks, mem_vars, caps_vars, sb_vars, ext_but_cpol>>
\* what a call on the DebugSession leaves alone
ext_but_sess == <<bp_vars, tr_vars, trap_vars, policy_vars, dbg_vars,
                  parser_vars, sa_vars, addr_vars, cpol_vars, mgr_vars,
                  ctr_vars, pm_vars>>
frame_sess == <<overflow_checks, mem_vars, caps_vars, sb_vars, ext_but_sess>>
\* what a call on the SessionManager leaves alone
ext_but_mgr == <<bp_vars, tr_vars, trap_vars, policy_vars, dbg_vars,
                 parser_vars, sa_vars, addr_vars, cpol_vars, sess_vars,
                 ctr_vars, pm_vars>>
frame_mgr == <<overflow_checks, mem_vars, caps_vars, sb_vars, ext_but_mgr>>
\* what a call on the InstructionCounter leaves alone
ext_but_ctr == <<bp_vars, tr_vars, trap_vars, policy_vars, dbg_vars,
                 parser_vars, sa_vars, addr_vars, cpol_vars, sess_vars,
                 mgr_vars, pm_vars>>
frame_ctr == <<overflow_checks, mem_vars, caps_vars, sb_vars, ext_but_ctr>>
\* what a call on the PolicyManager leaves alone
ext_but_pm == <<bp_vars, tr_vars, trap_vars, policy_vars, dbg_vars,
                parser_vars, sa_vars, addr_vars, cpol_vars, sess_vars,
                mgr_vars, ctr_vars>>
frame_pm == <<overflow_checks, mem_vars, caps_vars, sb_vars, ext_but_pm>>

---------------------------------------------------------------------------
(* Machine integers *)

HalfBits == 2

PAGE_SIZE == 2 ^ HalfBits
MAX_PAGES == 2 ^ HalfBits
U32_MOD == 2 ^ (2 * HalfBits)
U32_MAX == U32_MOD - 1
U32 == 0 .. U32_MAX

\* a byte is ByteBits bits wide
ByteBits == 1
BYTE_MOD == 2 ^ ByteBits
Byte == 0 .. (BYTE_MOD - 1)

\* Option<u32>
None == [some |-> FALSE, v |-> 0]
Some(x) == [some |-> TRUE, v |-> x]

\* Result<T>
Ok(v) == [ok |-> TRUE, val |-> v, err |-> [kind |-> "none", msg |-> "", address |-> 0, size |-> 0]]
Err(e) == [ok |-> FALSE, val |-> 0, err |-> e]
Runtime(m) == [kind |-> "Runtime", msg |-> m, address |-> 0, size |-> 0]
InvalidModule == [kind |-> "InvalidModule", msg |-> "", address |-> 0, size |-> 0]
MemoryOutOfBounds(a, s) == [kind |-> "MemoryOutOfBounds", msg |-> "", address |-> a, size |-> s]
\* an arithmetic-overflow panic: the call does not return
Panic == [kind |-> "panic", msg |-> "attempt to add or multiply with overflow", address |-> 0, size |-> 0]

\* x.checked_add(y): None on overflow
checked_add(x, y) == IF x + y > U32_MAX THEN None ELSE Some(x + y)

\* the value a wrapping u32 operation leaves
Wrap(x) == x % U32_MOD

\* value.to_le_bytes() for an n-byte integer
RECURSIVE to_le_bytes(_, _)
to_le_bytes(value, n) ==
    IF n = 0 THEN <<>> ELSE <<value % BYTE_MOD>> \o to_le_bytes(value \div BYTE_MOD, n - 1)

\* uN::from_le_bytes(bytes)
RECURSIVE from_le_bytes(_)
from_le_bytes(bytes) ==
    IF bytes = <<>> THEN 0 ELSE Head(bytes) + BYTE_MOD * from_le_bytes(Tail(bytes))

Zeros(n) == [i \in 1 .. n |-> 0]

\* Vec::resize(new_len, 0): truncate, or extend with zero bytes
Resize(data, new_len) ==
    IF new_len <= Len(data) THEN SubSeq(data, 1, new_len)
    ELSE data \o Zeros(new_len - Len(data))

---------------------------------------------------------------------------
(* LinearMemory (memory.rs) *)

NoMem == [live |-> FALSE, data |-> <<>>, min_pages |-> 0, max_pages |-> None, current_pages |-> 0]

\* LinearMemory::new(min_pages, max_pages): the memory built and the result
MemoryNew(checks, min_pages, max_pages) ==
    IF max_pages.some /\ (min_pages > max_pages.v \/ max_pages.v > MAX_PAGES)
    THEN [mem |-> NoMem, res |-> Err(InvalidModule)]
    ELSE IF checks /\ min_pages * PAGE_SIZE > U32_MAX
    THEN [mem |-> NoMem, res |-> Err(Panic)]
    ELSE LET initial_size == Wrap(min_pages * PAGE_SIZE)
         IN [mem |-> [live |-> TRUE, data |-> Zeros(initial_size), min_pages |-> min_pages,
                      max_pages |-> max_pages, current_pages |-> min_pages],
             res |-> Ok(0)]

\* LinearMemory::size
MemorySize(m) == m.current_pages

\* grow with the page count stored before the MAX_PAGES check
MemoryGrowStoresFirst(checks, m, delta) ==
    LET new_size == Wrap(m.current_pages + delta) IN
    IF m.max_pages.some /\ new_size > m.max_pages.v
    THEN [mem |-> [m EXCEPT !.current_pages = new_size], res |-> Err(Runtime("Memory grow failed"))]
    ELSE IF new_size > MAX_PAGES
    THEN [mem |-> [m EXCEPT !.current_pages = new_size], res |-> Err(Runtime("Memory grow failed"))]
    ELSE [mem |-> [m EXCEPT !.data = Resize(m.data, Wrap(new_size * PAGE_SIZE)),
                            !.current_pages = new_size],
          res |-> Ok(m.current_pages)]

\* LinearMemory::grow(delta)
MemoryGrow(checks, m, delta) ==
    LET old_size == m.current_pages IN
    IF checks /\ old_size + delta > U32_MAX
    THEN [mem |-> m, res |-> Err(Panic)]
    ELSE LET new_size == Wrap(old_size + delta) IN
         IF m.max_pages.some /\ new_size > m.max_pages.v
         THEN [mem |-> m, res |-> Err(Runtime("Memory grow failed"))]
         ELSE IF new_size > MAX_PAGES
         THEN [mem |-> m, res |-> Err(Runtime("Memory grow failed"))]
         ELSE IF checks /\ new_size * PAGE_SIZE > U32_MAX
         THEN [mem |-> m, res |-> Err(Panic)]
         ELSE LET new_byte_size == Wrap(new_size * PAGE_SIZE)
              IN [mem |-> [m EXCEPT !.data = Resize(m.data, new_byte_size),
                                    !.current_pages = new_size],
                  res |-> Ok(old_size)]

\* LinearMemory::check_bounds(address, size)
check_bounds(m, address, size) ==
    LET end_address == checked_add(address, size) IN
    IF ~end_address.some THEN Err(MemoryOutOfBounds(address, size))
    ELSE IF end_address.v > Wrap(Len(m.data)) THEN Err(MemoryOutOfBounds(address, size))
    ELSE Ok(0)

\* the slice data[address .. address + n]
Slice(data, address, n) == SubSeq(data, address + 1, address + n)

\* data[address .. address + n].copy_from_slice(bytes)
CopyFromSlice(data, address, bytes) ==
    [i \in 1 .. Len(data) |->
        IF i > address /\ i <= address + Len(bytes) THEN bytes[i - address] ELSE data[i]]

\* read_u8 / read_u16 / read_u32 / read_u64 (n = 1, 2, 4, 8)
MemoryReadUint(m, address, n) ==
    LET b == check_bounds(m, address, n) IN
    IF ~b.ok THEN b ELSE Ok(from_le_bytes(Slice(m.data, address, n)))

\* write_u8 / write_u16 / write_u32 / write_u64 (n = 1, 2, 4, 8)
MemoryWriteUint(m, address, value, n) ==
    LET b == check_bounds(m, address, n) IN
    IF ~b.ok THEN [mem |-> m, res |-> b]
    ELSE [mem |-> [m EXCEPT !.data = CopyFromSlice(m.data, address, to_le_bytes(value, n))],
          res |-> Ok(0)]

\* LinearMemory::read_bytes(address, len)
MemoryReadBytes(m, address, len) ==
    LET b == check_bounds(m, address, len) IN
    IF ~b.ok THEN [res |-> b, bytes |-> <<>>]
    ELSE [res |-> Ok(len), bytes |-> Slice(m.data, address, len)]

\* LinearMemory::write_bytes(address, data)
MemoryWriteBytes(m, address, bytes) ==
    LET b == check_bounds(m, address, Wrap(Len(bytes))) IN
    IF ~b.ok THEN [mem |-> m, res |-> b]
    ELSE IF address + Len(bytes) > Len(m.data)
    THEN [mem |-> m, res |-> Err(Panic)]      \* slice index out of range
    ELSE [mem |-> [m EXCEPT !.data = CopyFromSlice(m.data, address, bytes)],
          res |-> Ok(0)]

(* The calls a LinearMemory receives *)

MaxWrites == 1

PageInputs == {0, 1, MAX_PAGES, MAX_PAGES + 1}
MaxPageInputs == {None} \cup {Some(x) : x \in {2, MAX_PAGES, MAX_PAGES + 1}}
DeltaInputs == {0, 1, MAX_PAGES, U32_MAX}
\* the last address at which an access of n bytes fits the buffer, the one
\* after it, and the largest address
AddrInputs(n) == {Len(mem.data) - n, Len(mem.data) - n + 1, U32_MAX} \cap U32
LenInputs == {0, 1, PAGE_SIZE + 1}
UintSizes == {1, 2, 4, 8}
\* the value written: the largest n-byte integer (no byte of it is 0)
ValueInputs(n) == {BYTE_MOD ^ n - 1}
BytesInputs == {<<>>, <<1>>, [i \in 1 .. PAGE_SIZE + 1 |-> 1]}

\* a returned Result: val is the integer returned, bytes the slice returned
MemResult(op, res, bytes) ==
    [op |-> op, ok |-> res.ok, val |-> res.val, bytes |-> bytes, err |-> res.err]
NoResult == MemResult("none", Ok(0), <<>>)

MemNew(min_pages, max_pages) ==
    /\ ~mem.live
    /\ LET r == MemoryNew(overflow_checks, min_pages, max_pages)
       IN /\ mem' = r.mem
          /\ mem_result' = MemResult("new", r.res, <<>>)
    /\ UNCHANGED <<ext_vars, overflow_checks, mem_writes, caps_vars, sb_vars>>

MemGrow(delta) ==
    /\ mem.live
    /\ LET r == MemoryGrow(overflow_checks, mem, delta)
       IN /\ mem' = r.mem
          /\ mem_result' = MemResult("grow", r.res, <<>>)
    /\ UNCHANGED <<ext_vars, overflow_checks, mem_writes, caps_vars, sb_vars>>

MemReadUint(address, n) ==
    /\ mem.live
    /\ mem_result' = MemResult("read_uint", MemoryReadUint(mem, address, n), <<>>)
    /\ UNCHANGED <<ext_vars, overflow_checks, mem, mem_writes, caps_vars, sb_vars>>

MemWriteUint(address, value, n) ==
    /\ mem.live
    /\ mem_writes < MaxWrites
    /\ LET r == MemoryWriteUint(mem, address, value, n)
       IN /\ mem' = r.mem
          /\ mem_result' = MemResult("write_uint", r.res, <<>>)
          /\ mem_writes' = IF r.res.ok THEN mem_writes + 1 ELSE mem_writes
    /\ UNCHANGED <<ext_vars, overflow_checks, caps_vars, sb_vars>>

MemReadBytes(address, len) ==
    /\ mem.live
    /\ LET r == MemoryReadBytes(mem, address, len)
       IN mem_result' = MemResult("read_bytes", r.res, r.bytes)
    /\ UNCHANGED <<ext_vars, overflow_checks, mem, mem_writes, caps_vars, sb_vars>>

MemWriteBytes(address, bytes) ==
    /\ mem.live
    /\ mem_writes < MaxWrites
    /\ LET r == MemoryWriteBytes(mem, address, bytes)
       IN /\ mem' = r.mem
          /\ mem_result' = MemResult("write_bytes", r.res, <<>>)
          /\ mem_writes' = IF r.res.ok THEN mem_writes + 1 ELSE mem_writes
    /\ UNCHANGED <<ext_vars, overflow_checks, caps_vars, sb_vars>>

MemInit ==
    /\ mem = NoMem
    /\ mem_result = NoResult
    /\ mem_writes = 0

---------------------------------------------------------------------------
(* sandbox/capabilities.rs: Capability and CapabilitySet.  A capability is a
   record [tag, arg]; arg is "" for the variants without a payload. *)

SensorType == {"Temperature", "Humidity", "Pressure", "Motion", "Light", "Sound", "Any"}
AlertLevel == {"Info", "Warning", "Error", "Critical", "Any"}

Cap(tag) == [tag |-> tag, arg |-> ""]
ReadSensor(sensor_type) == [tag |-> "ReadSensor", arg |-> sensor_type]
SendAlert(level) == [tag |-> "SendAlert", arg |-> level]

Capability ==
    {Cap(t) : t \in {"Log", "GetTime", "Random", "MemoryGrow", "NetworkAccess",
                     "FileSystemRead", "FileSystemWrite"}}
    \cup {ReadSensor(x) : x \in SensorType}
    \cup {SendAlert(x) : x \in AlertLevel}

\* CapabilitySet::new
CapabilitySetNew == {}

\* grant: HashSet::insert
CapabilitySetGrant(set, capability) == set \cup {capability}

\* revoke: HashSet::remove
CapabilitySetRevoke(set, capability) == set \ {capability}

\* clear
CapabilitySetClear(set) == {}

\* with_basic, with_sensor_access, with_alert_system
with_basic ==
    CapabilitySetGrant(CapabilitySetGrant(CapabilitySetGrant(CapabilitySetNew,
        Cap("Log")), Cap("GetTime")), Cap("Random"))
with_sensor_access == CapabilitySetGrant(with_basic, ReadSensor("Any"))
with_alert_system == CapabilitySetGrant(with_basic, SendAlert("Any"))

\* has answering for the variant alone: any ReadSensor entry stands for every
\* sensor type, any SendAlert entry for every level
CapabilitySetHasVariant(set, capability) ==
    IF capability \in set THEN TRUE
    ELSE CASE capability.tag = "ReadSensor" -> \E c \in set : c.tag = "ReadSensor"
           [] capability.tag = "SendAlert" -> \E c \in set : c.tag = "SendAlert"
           [] OTHER -> FALSE

\* has with the wildcard arms left out: an exact match only
CapabilitySetHasExact(set, capability) == capability \in set

\* has: an exact match, else the Any wildcard of the same variant
CapabilitySetHas(set, capability) ==
    IF capability \in set THEN TRUE
    ELSE CASE capability.tag = "ReadSensor" -> ReadSensor("Any") \in set
           [] capability.tag = "SendAlert" -> SendAlert("Any") \in set
           [] OTHER -> FALSE

can_read_sensor(set, sensor_type) ==
    CapabilitySetHas(set, ReadSensor(sensor_type)) \/ CapabilitySetHas(set, ReadSensor("Any"))

can_send_alert(set, level) ==
    CapabilitySetHas(set, SendAlert(level)) \/ CapabilitySetHas(set, SendAlert("Any"))

\* the capabilities the calls below are made with
CapInputs ==
    {Cap("Log"), Cap("GetTime"),
     ReadSensor("Temperature"), ReadSensor("Humidity"), ReadSensor("Any"),
     SendAlert("Info"), SendAlert("Critical"), SendAlert("Any")}

CapsResult(op, capability, val) == [op |-> op, cap |-> capability, val |-> val]
NoCapsResult == CapsResult("none", Cap("Log"), FALSE)

CapsConstruct(ctor) ==
    /\ capset' = CASE ctor = "new" -> CapabilitySetNew
                   [] ctor = "with_basic" -> with_basic
                   [] ctor = "with_sensor_access" -> with_sensor_access
                   [] ctor = "with_alert_system" -> with_alert_system
    /\ caps_result' = NoCapsResult
    /\ UNCHANGED <<ext_vars, overflow_checks, mem_vars, sb_vars>>

CapsGrant(capability) ==
    /\ capset' = CapabilitySetGrant(capset, capability)
    /\ caps_result' = NoCapsResult
    /\ UNCHANGED <<ext_vars, overflow_checks, mem_vars, sb_vars>>

CapsRevoke(capability) ==
    /\ capset' = CapabilitySetRevoke(capset, capability)
    /\ caps_result' = NoCapsResult
    /\ UNCHANGED <<ext_vars, overflow_checks, mem_vars, sb_vars>>

CapsClear ==
    /\ capset' = CapabilitySetClear(capset)
    /\ caps_result' = NoCapsResult
    /\ UNCHANGED <<ext_vars, overflow_checks, mem_vars, sb_vars>>

CapsHas(capability) ==
    /\ caps_result' = CapsResult("has", capability, CapabilitySetHas(capset, capability))
    /\ UNCHANGED <<ext_vars, overflow_checks, mem_vars, capset, sb_vars>>

CapsCanReadSensor(sensor_type) ==
    /\ caps_result' = CapsResult("can_read_sensor", ReadSensor(sensor_type),
                                 can_read_sensor(capset, sensor_type))
    /\ UNCHANGED <<ext_vars, overflow_checks, mem_vars, capset, sb_vars>>

CapsCanSendAlert(level) ==
    /\ caps_result' = CapsResult("can_send_alert", SendAlert(level),
                                 can_send_alert(capset, level))
    /\ UNCHANGED <<ext_vars, overflow_checks, mem_vars, capset, sb_vars>>

CapsInit ==
    /\ capset = CapabilitySetNew
    /\ caps_result = NoCapsResult

---------------------------------------------------------------------------
(* sandbox/syscall_trap.rs: SyscallTrap.  A handler is named by its kind; the
   wall clock and the hash of the wall clock that TimeSyscallHandler and
   RandomSyscallHandler read are inputs of the call (env). *)

\* the length of syscall_log above which handle drains it, and how many of
\* the oldest entries it drains (1000 and 500 in the code, scaled)
SyscallLogMax == 4
SyscallLogDrain == 2

\* DeniedSyscallHandler answering Ok(0)
SyscallHandlerHandleDeniedOk(kind, args, env) ==
    CASE kind = "Denied" -> Ok(0)
      [] kind = "Log" ->
            IF Len(args) < 2 THEN Err(Runtime("Invalid log syscall arguments")) ELSE Ok(0)
      [] kind = "Time" ->
            IF env.wall < 0 THEN Err(Runtime("Time error")) ELSE Ok(Wrap(env.wall))
      [] kind = "Random" -> Ok(env.rnd)
      [] kind = "Sensor" ->
            IF Len(args) = 0 THEN Err(Runtime("Invalid sensor syscall arguments"))
            ELSE CASE args[1] = 0 -> Ok(25)
                   [] args[1] = 1 -> Ok(60)
                   [] args[1] = 2 -> Ok(1013)
                   [] args[1] = 3 -> Ok(0)
                   [] args[1] = 4 -> Ok(500)
                   [] args[1] = 5 -> Ok(40)
                   [] OTHER -> Err(Runtime("Unknown sensor ID"))
      [] kind = "Alert" ->
            IF Len(args) < 3 THEN Err(Runtime("Invalid alert syscall arguments")) ELSE Ok(0)

\* SyscallHandler::handle of the six handler types
SyscallHandlerHandle(kind, args, env) ==
    CASE kind = "Denied" -> Err(Runtime("Syscall denied by policy"))
      [] kind = "Log" ->
            IF Len(args) < 2 THEN Err(Runtime("Invalid log syscall arguments")) ELSE Ok(0)
      [] kind = "Time" ->
            IF env.wall < 0 THEN Err(Runtime("Time error")) ELSE Ok(Wrap(env.wall))
      [] kind = "Random" -> Ok(env.rnd)
      [] kind = "Sensor" ->
            IF Len(args) = 0 THEN Err(Runtime("Invalid sensor syscall arguments"))
            ELSE CASE args[1] = 0 -> Ok(25)
                   [] args[1] = 1 -> Ok(60)
                   [] args[1] = 2 -> Ok(1013)
                   [] args[1] = 3 -> Ok(0)
                   [] args[1] = 4 -> Ok(500)
                   [] args[1] = 5 -> Ok(40)
                   [] OTHER -> Err(Runtime("Unknown sensor ID"))
      [] kind = "Alert" ->
            IF Len(args) < 3 THEN Err(Runtime("Invalid alert syscall arguments")) ELSE Ok(0)

\* register_syscall: the name goes into allowed_syscalls and gets the handler
register_syscall(trap, name, handler) ==
    [trap EXCEPT !.allowed_syscalls = @ \cup {name},
                 !.syscall_handlers =
                     [n \in (DOMAIN @) \cup {name} |-> IF n = name THEN handler ELSE @[n]]]

\* the calls setup_default_handlers makes, in order
DefaultHandlers ==
    << <<"wasm_log", "Log">>, <<"wasm_get_time", "Time">>, <<"wasm_random", "Random">>,
       <<"wasm_read_sensor", "Sensor">>, <<"wasm_send_alert", "Alert">>,
       <<"open", "Denied">>, <<"read", "Denied">>, <<"write", "Denied">>,
       <<"socket", "Denied">>, <<"connect", "Denied">>, <<"exec", "Denied">>,
       <<"fork", "Denied">> >>

RECURSIVE RegisterAll(_, _)
RegisterAll(trap, regs) ==
    IF regs = <<>> THEN trap
    ELSE RegisterAll(register_syscall(trap, Head(regs)[1], Head(regs)[2]), Tail(regs))

setup_default_handlers(trap) == RegisterAll(trap, DefaultHandlers)

\* SyscallTrap::new
SyscallTrapNew ==
    setup_default_handlers([allowed_syscalls |-> {},
                            syscall_handlers |-> <<>>,
                            syscall_log |-> <<>>])

is_allowed(trap, syscall) == syscall \in trap.allowed_syscalls

\* deny_syscall and allow_syscall
deny_syscall(trap, syscall) ==
    [trap EXCEPT !.allowed_syscalls = @ \ {syscall},
                 !.syscall_handlers =
                     [n \in (DOMAIN @) \cup {syscall} |-> IF n = syscall THEN "Denied" ELSE @[n]]]

allow_syscall(trap, syscall, handler) == register_syscall(trap, syscall, handler)

\* a log entry (its timestamp, which no call reads, is left out)
SyscallEntry(name, args, result) == [name |-> name, args |-> args, result |-> result]

\* handle that never drains the log
SyscallTrapHandleNoDrain(trap, syscall, args, env) ==
    LET result == IF syscall \in DOMAIN trap.syscall_handlers
                  THEN SyscallHandlerHandle(trap.syscall_handlers[syscall], args, env)
                  ELSE Err(Runtime("Unknown syscall: " \o syscall))
    IN [trap |-> [trap EXCEPT !.syscall_log =
                                  Append(@, SyscallEntry(syscall, args, result))],
        res |-> result]

\* handle: run the handler registered for the name (an error when there is
\* none), push the entry, drain the oldest entries of a log grown too long
SyscallTrapHandle(trap, syscall, args, env) ==
    LET result == IF syscall \in DOMAIN trap.syscall_handlers
                  THEN SyscallHandlerHandle(trap.syscall_handlers[syscall], args, env)
                  ELSE Err(Runtime("Unknown syscall: " \o syscall))
        pushed == Append(trap.syscall_log, SyscallEntry(syscall, args, result))
        log == IF Len(pushed) > SyscallLogMax
               THEN SubSeq(pushed, SyscallLogDrain + 1, Len(pushed))
               ELSE pushed
    IN [trap |-> [trap EXCEPT !.syscall_log = log], res |-> result]

---------------------------------------------------------------------------
(* sandbox/mod.rs: ResourceLimits, ResourceUsage and Sandbox.  Durations and
   instants are counted in ticks of the variable now; instruction_count is a
   u64, twice as wide as a u32. *)

U64_MOD == U32_MOD * U32_MOD
U64_MAX == U64_MOD - 1

ResourceLimits(pages, cpu, syscalls, instructions) ==
    [max_memory_pages |-> pages, max_cpu_time |-> cpu,
     max_syscalls |-> syscalls, max_instructions |-> instructions]

\* ResourceUsage::new (start_time is tick 0)
ResourceUsageNew ==
    [memory_pages |-> 0, cpu_time |-> 0, syscall_count |-> 0, instruction_count |-> 0]

\* update_cpu_time: start_time.elapsed()
update_cpu_time(usage, elapsed) == [usage EXCEPT !.cpu_time = elapsed]

\* increment_syscall: syscall_count += 1 on a u32
increment_syscall(checks, usage) ==
    IF usage.syscall_count + 1 > U32_MAX /\ checks
    THEN [usage |-> usage, panic |-> TRUE]
    ELSE [usage |-> [usage EXCEPT !.syscall_count = Wrap(@ + 1)], panic |-> FALSE]

\* ResourceUsage::increment_instructions: instruction_count += count on a u64
increment_instructions(checks, usage, count) ==
    IF usage.instruction_count + count > U64_MAX /\ checks
    THEN [usage |-> usage, panic |-> TRUE]
    ELSE [usage |-> [usage EXCEPT !.instruction_count = (@ + count) % U64_MOD],
          panic |-> FALSE]

\* Sandbox::new
SandboxNew(limits) ==
    [limits |-> limits,
     usage |-> ResourceUsageNew,
     capabilities |-> CapabilitySetNew,
     syscall_trap |-> SyscallTrapNew,
     violations |-> <<>>]

\* the text a violation is logged with: what was exceeded, the syscall named,
\* and the usage and limit printed
Message(text, syscall, value, limit) ==
    [text |-> text, syscall |-> syscall, value |-> value, limit |-> limit]

\* a violation (its timestamp, which no call reads, is left out)
SecurityViolation(violation_type, message) ==
    [violation_type |-> violation_type, message |-> message]

\* log_violation: push onto violations
log_violation(sb, violation_type, message) ==
    [sb EXCEPT !.violations = Append(@, SecurityViolation(violation_type, message))]

\* check_limits that looks at the CPU time before the memory
check_limits_time_first(sb, elapsed) ==
    LET s == [sb EXCEPT !.usage = update_cpu_time(@, elapsed)]
        u == s.usage
        l == s.limits
    IN IF u.cpu_time > l.max_cpu_time
       THEN [sb |-> log_violation(s, "CpuTimeLimit",
                        Message("CPU time limit exceeded", "", u.cpu_time,
                                l.max_cpu_time)),
             res |-> Err(Runtime("CPU time limit exceeded"))]
       ELSE IF u.memory_pages > l.max_memory_pages
       THEN [sb |-> log_violation(s, "MemoryLimit",
                        Message("Memory limit exceeded", "", u.memory_pages,
                                l.max_memory_pages)),
             res |-> Err(Runtime("Memory limit exceeded"))]
       ELSE IF u.syscall_count > l.max_syscalls
       THEN [sb |-> log_violation(s, "SyscallQuota",
                        Message("Syscall quota exceeded", "", u.syscall_count,
                                l.max_syscalls)),
             res |-> Err(Runtime("Syscall quota exceeded"))]
       ELSE IF u.instruction_count > l.max_instructions
       THEN [sb |-> log_violation(s, "InstructionLimit",
                        Message("Instruction limit exceeded", "", u.instruction_count,
                                l.max_instructions)),
             res |-> Err(Runtime("Instruction limit exceeded"))]
       ELSE [sb |-> s, res |-> Ok(0)]

\* check_limits: refresh cpu_time, then memory, CPU time, syscalls and
\* instructions in this order; the first one above its limit is logged and
\* returned
check_limits(sb, elapsed) ==
    LET s == [sb EXCEPT !.usage = update_cpu_time(@, elapsed)]
        u == s.usage
        l == s.limits
    IN IF u.memory_pages > l.max_memory_pages
       THEN [sb |-> log_violation(s, "MemoryLimit",
                        Message("Memory limit exceeded", "", u.memory_pages,
                                l.max_memory_pages)),
             res |-> Err(Runtime("Memory limit exceeded"))]
       ELSE IF u.cpu_time > l.max_cpu_time
       THEN [sb |-> log_violation(s, "CpuTimeLimit",
                        Message("CPU time limit exceeded", "", u.cpu_time,
                                l.max_cpu_time)),
             res |-> Err(Runtime("CPU time limit exceeded"))]
       ELSE IF u.syscall_count > l.max_syscalls
       THEN [sb |-> log_violation(s, "SyscallQuota",
                        Message("Syscall quota exceeded", "", u.syscall_count,
                                l.max_syscalls)),
             res |-> Err(Runtime("Syscall quota exceeded"))]
       ELSE IF u.instruction_count > l.max_instructions
       THEN [sb |-> log_violation(s, "InstructionLimit",
                        Message("Instruction limit exceeded", "", u.instruction_count,
                                l.max_instructions)),
             res |-> Err(Runtime("Instruction limit exceeded"))]
       ELSE [sb |-> s, res |-> Ok(0)]

\* grant_capability
grant_capability(sb, capability) ==
    [sb EXCEPT !.capabilities = CapabilitySetGrant(@, capability)]

\* check_capability that grants everything
check_capability_unchecked(sb, capability) == Ok(0)

\* check_capability (&self)
check_capability(sb, capability) ==
    IF ~CapabilitySetHas(sb.capabilities, capability)
    THEN Err(Runtime("Capability violation"))
    ELSE Ok(0)

\* intercept_syscall that lets the trap handle the call whatever the limits
\* and the allow set say
intercept_syscall_dispatch_first(checks, sb, syscall, args, env, elapsed) ==
    LET inc == increment_syscall(checks, sb.usage)
        h == SyscallTrapHandle(sb.syscall_trap, syscall, args, env)
        lim == check_limits([sb EXCEPT !.usage = inc.usage, !.syscall_trap = h.trap], elapsed)
    IN IF inc.panic THEN [sb |-> sb, res |-> Err(Panic)]
       ELSE IF ~lim.res.ok THEN [sb |-> lim.sb, res |-> lim.res]
       ELSE IF ~is_allowed(lim.sb.syscall_trap, syscall)
       THEN [sb |-> log_violation(lim.sb, "UnauthorizedSyscall",
                        Message("Unauthorized syscall", syscall, 0, 0)),
             res |-> Err(Runtime("Unauthorized syscall"))]
       ELSE [sb |-> lim.sb, res |-> h.res]

\* intercept_syscall: count the call, check the limits, refuse a name that is
\* not allowed, else let the trap handle it
intercept_syscall(checks, sb, syscall, args, env, elapsed) ==
    LET inc == increment_syscall(checks, sb.usage)
        lim == check_limits([sb EXCEPT !.usage = inc.usage], elapsed)
        h == SyscallTrapHandle(lim.sb.syscall_trap, syscall, args, env)
    IN IF inc.panic THEN [sb |-> sb, res |-> Err(Panic)]
       ELSE IF ~lim.res.ok THEN [sb |-> lim.sb, res |-> lim.res]
       ELSE IF ~is_allowed(lim.sb.syscall_trap, syscall)
       THEN [sb |-> log_violation(lim.sb, "UnauthorizedSyscall",
                        Message("Unauthorized syscall", syscall, 0, 0)),
             res |-> Err(Runtime("Unauthorized syscall"))]
       ELSE [sb |-> [lim.sb EXCEPT !.syscall_trap = h.trap], res |-> h.res]

\* update_memory_usage
update_memory_usage(sb, pages) == [sb EXCEPT !.usage.memory_pages = pages]

\* Sandbox::increment_instructions
SandboxIncrementInstructions(checks, sb, count) ==
    LET inc == increment_instructions(checks, sb.usage, count)
    IN [sb |-> [sb EXCEPT !.usage = inc.usage],
        res |-> IF inc.panic THEN Err(Panic) ELSE Ok(0)]

get_violations(sb) == sb.violations

---------------------------------------------------------------------------
(* abi/host_interface.rs and abi/mod.rs: HostInterface and WasmABI.  What a
   host call does outside the engine (a log line, an alert handed to the
   handlers) and every read it makes of the HostInterface (a sensor, the
   time, a random number) is appended to a list of effects. *)

\* the sensor_data that HostInterface::initialize fills in
sensor_data == (0 :> 25) @@ (1 :> 60) @@ (2 :> 1013) @@ (3 :> 0) @@ (4 :> 500) @@ (5 :> 40)

HostEffect(kind, level, message) == [kind |-> kind, level |-> level, message |-> message]

\* HostInterface::log: every log handler gets the message
HostLog(effects, message) == Append(effects, HostEffect("log", 0, message))

\* a call of read_sensor, get_time or random on the HostInterface
HostRead(effects, kind) == Append(effects, HostEffect(kind, 0, <<>>))

\* HostInterface::read_sensor: the stored value plus a variation (the
\* saturating sum stays below u32::MAX for the values of initialize)
HostReadSensor(sensor_id, variation) ==
    IF sensor_id \in DOMAIN sensor_data
    THEN Ok(sensor_data[sensor_id] + variation)
    ELSE Err(Runtime("Unknown sensor ID"))

\* send_alert without the test of the level
HostSendAlertAnyLevel(effects, level, message) ==
    [effects |-> Append(effects, HostEffect("alert", level, message)), res |-> Ok(0)]

\* HostInterface::send_alert: a level above 3 is an error, else every alert
\* handler gets the alert (DefaultAlertHandler returns Ok)
HostSendAlert(effects, level, message) ==
    IF level > 3
    THEN [effects |-> effects, res |-> Err(Runtime("Invalid alert level"))]
    ELSE [effects |-> Append(effects, HostEffect("alert", level, message)), res |-> Ok(0)]

\* HostInterface::get_time and HostInterface::random
HostGetTime(env) == IF env.wall < 0 THEN Err(Runtime("Time error")) ELSE Ok(Wrap(env.wall))
HostRandom(env) == Ok(env.rnd)

AbiReturn(sb, effects, res) == [sb |-> sb, effects |-> effects, res |-> res]

wasm_log(sb, effects, args, memory) ==
    LET cap == check_capability(sb, Cap("Log"))
        rd == MemoryReadBytes(memory, args[1], args[2])
    IN IF ~cap.ok THEN AbiReturn(sb, effects, cap)
       ELSE IF Len(args) < 2
       THEN AbiReturn(sb, effects, Err(Runtime("wasm_log requires 2 arguments")))
       ELSE IF ~rd.res.ok THEN AbiReturn(sb, effects, rd.res)
       ELSE AbiReturn(sb, HostLog(effects, rd.bytes), Ok(0))

sensor_type_of(sensor_id) ==
    CASE sensor_id = 0 -> Some("Temperature")
      [] sensor_id = 1 -> Some("Humidity")
      [] sensor_id = 2 -> Some("Pressure")
      [] sensor_id = 3 -> Some("Motion")
      [] sensor_id = 4 -> Some("Light")
      [] sensor_id = 5 -> Some("Sound")
      [] OTHER -> None

wasm_read_sensor(sb, effects, args, env) ==
    LET sensor_type == sensor_type_of(args[1])
        cap == check_capability(sb, ReadSensor(sensor_type.v))
    IN IF Len(args) = 0
       THEN AbiReturn(sb, effects, Err(Runtime("wasm_read_sensor requires 1 argument")))
       ELSE IF ~sensor_type.some
       THEN AbiReturn(sb, effects, Err(Runtime("Invalid sensor ID")))
       ELSE IF ~cap.ok THEN AbiReturn(sb, effects, cap)
       ELSE AbiReturn(sb, HostRead(effects, "read_sensor"),
                      HostReadSensor(args[1], env.variation))

alert_level_of(level) ==
    CASE level = 0 -> Some("Info")
      [] level = 1 -> Some("Warning")
      [] level = 2 -> Some("Error")
      [] level = 3 -> Some("Critical")
      [] OTHER -> None

wasm_send_alert(sb, effects, args, memory) ==
    LET alert_level == alert_level_of(args[1])
        cap == check_capability(sb, SendAlert(alert_level.v))
        rd == MemoryReadBytes(memory, args[2], args[3])
        sent == HostSendAlert(effects, args[1], rd.bytes)
    IN IF Len(args) < 3
       THEN AbiReturn(sb, effects, Err(Runtime("wasm_send_alert requires 3 arguments")))
       ELSE IF ~alert_level.some
       THEN AbiReturn(sb, effects, Err(Runtime("Invalid alert level")))
       ELSE IF ~cap.ok THEN AbiReturn(sb, effects, cap)
       ELSE IF ~rd.res.ok THEN AbiReturn(sb, effects, rd.res)
       ELSE AbiReturn(sb, sent.effects, sent.res)

wasm_get_time(sb, effects, env) ==
    LET cap == check_capability(sb, Cap("GetTime"))
    IN IF ~cap.ok THEN AbiReturn(sb, effects, cap)
       ELSE AbiReturn(sb, HostRead(effects, "get_time"), HostGetTime(env))

wasm_random(sb, effects, env) ==
    LET cap == check_capability(sb, Cap("Random"))
    IN IF ~cap.ok THEN AbiReturn(sb, effects, cap)
       ELSE AbiReturn(sb, HostRead(effects, "random"), HostRandom(env))

\* call_host_function: dispatch on the name
call_host_function(sb, effects, name, args, memory, env) ==
    CASE name = "wasm_log" -> wasm_log(sb, effects, args, memory)
      [] name = "wasm_read_sensor" -> wasm_read_sensor(sb, effects, args, env)
      [] name = "wasm_send_alert" -> wasm_send_alert(sb, effects, args, memory)
      [] name = "wasm_get_time" -> wasm_get_time(sb, effects, env)
      [] name = "wasm_random" -> wasm_random(sb, effects, env)
      [] OTHER -> AbiReturn(sb, effects, Err(Runtime("Unknown host function: " \o name)))

\* abi/functions.rs get_abi_functions: the declared host functions, each with
\* the types of its parameters
FunctionSignature(name, params) == [name |-> name, params |-> params]
get_abi_functions ==
    <<FunctionSignature("wasm_log", <<"I32", "I32">>),
      FunctionSignature("wasm_read_sensor", <<"I32">>),
      FunctionSignature("wasm_send_alert", <<"I32", "I32", "I32">>),
      FunctionSignature("wasm_get_time", <<>>),
      FunctionSignature("wasm_random", <<>>),
      FunctionSignature("wasm_memory_size", <<>>),
      FunctionSignature("wasm_memory_grow", <<"I32">>)>>

\* abi/functions.rs validate_function_call: the name is declared, and the
\* arguments are as many as its parameters and of their types
validate_function_call(name, args) ==
    LET functions == get_abi_functions
        found == {n \in 1 .. Len(functions) : functions[n].name = name}
    IN IF found = {} THEN Err(Runtime("Unknown function: " \o name))
       ELSE LET function == functions[CHOOSE n \in found : \A m \in found : n <= m]
            IN IF Len(args) # Len(function.params)
                 THEN Err(Runtime("Function expects another number of arguments"))
               ELSE IF \E i \in 1 .. Len(args) : function.params[i] # args[i]
                 THEN Err(Runtime("Function argument type mismatch"))
               ELSE Ok(0)

---------------------------------------------------------------------------
(* The calls made on one Sandbox, and on the WasmABI that owns it. *)

\* how many calls are made on the sandbox, and how far the clock runs
MaxOps == 2
MaxTime == 2

\* how many calls are made in a run that takes syscall_count around the u32
MaxCalls == U32_MOD + 2

\* the limits the sandbox is built with: one page, one tick, one syscall, one
\* instruction
LimitsInputs == {ResourceLimits(1, 1, 1, 1)}

\* the limits of a run that takes syscall_count around the u32: a quota of
\* one syscall, or of all but one of the syscalls a u32 can count
QuotaLimitsInputs == {ResourceLimits(1, 1, 1, 1), ResourceLimits(1, MaxTime, U32_MAX - 1, 1)}

\* max_instructions of ResourceLimits::strict (100,000 in the code, scaled),
\* and the batches the instructions are counted in
StrictInstructions == 4
BatchInputs == {1, 2}

\* the limits of a run that uses up its instruction budget: time enough, and
\* the instruction limit of strict
BudgetLimitsInputs == {ResourceLimits(1, MaxTime, 1, StrictInstructions)}

\* how many calls are made in that run
MaxBudgetOps == 2 * StrictInstructions

\* what the wall clock, its hash and the sensor noise are during a call
EnvInputs ==
    {[wall |-> 1, rnd |-> 0, variation |-> 0],
     [wall |-> -1, rnd |-> U32_MAX, variation |-> 1]}

QuotaEnvInputs == {[wall |-> 1, rnd |-> 0, variation |-> 0]}

\* the syscalls with a real handler, the ones registered as denied, and
\* three that are not registered
HostSyscalls == {"wasm_log", "wasm_get_time", "wasm_random", "wasm_read_sensor", "wasm_send_alert"}
DeniedSyscalls == {"open", "read", "write", "socket", "connect", "exec", "fork"}
UnknownSyscalls == {"system", "unlink", "chmod"}

SyscallInputs ==
    {<<n, <<>> >> : n \in HostSyscalls \cup DeniedSyscalls \cup UnknownSyscalls}
    \cup {<<"wasm_log", <<0, 0>> >>, <<"wasm_read_sensor", <<0>> >>,
          <<"wasm_read_sensor", <<6>> >>, <<"wasm_send_alert", <<0, 0, 0>> >>}

\* the capabilities granted to and asked of the sandbox directly, and the
\* ones granted to the sandbox of a WasmABI
SbCapInputs == {Cap("Log"), ReadSensor("Any")}
AbiCapInputs ==
    {Cap("Log"), Cap("GetTime"), Cap("Random"), ReadSensor("Temperature"), ReadSensor("Any"),
     SendAlert("Info"), SendAlert("Any")}

PagesInputs == {1, 2}
InstructionInputs == {1, U64_MAX}

\* the host functions called through the ABI, with their arguments
HostCallInputs ==
    {<<n, <<>> >> : n \in HostSyscalls \cup {"wasm_memory_size", "open"}}
    \cup {<<"wasm_log", <<0, 1>> >>, <<"wasm_log", <<U32_MAX, 1>> >>,
          <<"wasm_read_sensor", <<0>> >>, <<"wasm_read_sensor", <<1>> >>,
          <<"wasm_read_sensor", <<6>> >>,
          <<"wasm_send_alert", <<0, 0, 1>> >>, <<"wasm_send_alert", <<3, 0, 1>> >>,
          <<"wasm_send_alert", <<4, 0, 1>> >>, <<"wasm_send_alert", <<0, U32_MAX, 1>> >>,
          <<"wasm_memory_grow", <<1>> >>}

\* the memory handed to call_host_function: one page of zeroes
AbiMemory == MemoryNew(FALSE, 1, None).mem

SbResult(op, name, args, cap, res) ==
    [op |-> op, name |-> name, args |-> args, cap |-> cap,
     ok |-> res.ok, val |-> res.val, err |-> res.err]
NoSbResult == SbResult("none", "", <<>>, Cap("Log"), Ok(0))

\* one more call that returned Err
CountError(res) == IF ~res.ok /\ res.err.kind # "panic" THEN sb_errors + 1 ELSE sb_errors

Tick ==
    /\ now < MaxTime
    /\ now' = now + 1
    /\ UNCHANGED <<ext_vars, overflow_checks, mem_vars, caps_vars, sandbox, sb_result, sb_errors,
                   sb_ops, host_effects>>

SbCheckLimits ==
    /\ LET r == check_limits(sandbox, now)
       IN /\ sandbox' = r.sb
          /\ sb_result' = SbResult("check_limits", "", <<>>, Cap("Log"), r.res)
          /\ sb_errors' = CountError(r.res)
    /\ sb_ops' = sb_ops + 1
    /\ UNCHANGED <<ext_vars, overflow_checks, mem_vars, caps_vars, now, host_effects>>

SbGrantCapability(capability) ==
    /\ sandbox' = grant_capability(sandbox, capability)
    /\ sb_result' = SbResult("grant_capability", "", <<>>, capability, Ok(0))
    /\ sb_ops' = sb_ops + 1
    /\ UNCHANGED <<ext_vars, overflow_checks, mem_vars, caps_vars, now, sb_errors, host_effects>>

SbCheckCapability(capability) ==
    /\ LET r == check_capability(sandbox, capability)
       IN /\ sb_result' = SbResult("check_capability", "", <<>>, capability, r)
          /\ sb_errors' = CountError(r)
    /\ sb_ops' = sb_ops + 1
    /\ UNCHANGED <<ext_vars, overflow_checks, mem_vars, caps_vars, now, sandbox, host_effects>>

SbInterceptSyscall(syscall, args, env) ==
    /\ LET r == intercept_syscall(overflow_checks, sandbox, syscall, args, env, now)
       IN /\ sandbox' = r.sb
          /\ sb_result' = SbResult("intercept_syscall", syscall, args, Cap("Log"), r.res)
          /\ sb_errors' = CountError(r.res)
    /\ sb_ops' = sb_ops + 1
    /\ UNCHANGED <<ext_vars, overflow_checks, mem_vars, caps_vars, now, host_effects>>

SbUpdateMemoryUsage(pages) ==
    /\ sandbox' = update_memory_usage(sandbox, pages)
    /\ sb_result' = SbResult("update_memory_usage", "", <<>>, Cap("Log"), Ok(0))
    /\ sb_ops' = sb_ops + 1
    /\ UNCHANGED <<ext_vars, overflow_checks, mem_vars, caps_vars, now, sb_errors, host_effects>>

SbIncrementInstructions(count) ==
    /\ LET r == SandboxIncrementInstructions(overflow_checks, sandbox, count)
       IN /\ sandbox' = r.sb
          /\ sb_result' = SbResult("increment_instructions", "", <<>>, Cap("Log"), r.res)
    /\ sb_ops' = sb_ops + 1
    /\ UNCHANGED <<ext_vars, overflow_checks, mem_vars, caps_vars, now, sb_errors, host_effects>>

AbiCallHostFunction(name, args, env) ==
    /\ LET r == call_host_function(sandbox, host_effects, name, args, AbiMemory, env)
       IN /\ sandbox' = r.sb
          /\ host_effects' = r.effects
          /\ sb_result' = SbResult("call_host_function", name, args, Cap("Log"), r.res)
          /\ sb_errors' = CountError(r.res)
    /\ sb_ops' = sb_ops + 1
    /\ UNCHANGED <<ext_vars, overflow_checks, mem_vars, caps_vars, now>>

\* the levels and the message handed to HostInterface::send_alert by an embedder
AlertLevelInputs == {0, 3, 4, U32_MAX}
AlertMessage == <<0>>

\* HostInterface::send_alert called on the interface itself
HiSendAlert(level) ==
    /\ LET sent == HostSendAlert(host_effects, level, AlertMessage)
       IN /\ host_effects' = sent.effects
          /\ sb_result' = SbResult("send_alert", "send_alert", <<level>>, Cap("Log"), sent.res)
          /\ sb_errors' = CountError(sent.res)
    /\ sb_ops' = sb_ops + 1
    /\ UNCHANGED <<ext_vars, overflow_checks, mem_vars, caps_vars, now, sandbox>>

\* how many calls of handle are made on the trap: enough to drain the log
MaxHandles == SyscallLogMax + 2

\* the calls handled: one refused by its handler, one answered, one denied
HandleInputs == {<<"wasm_log", <<>> >>, <<"wasm_random", <<>> >>, <<"open", <<>> >>}

\* SyscallTrap::handle on the trap of the sandbox
TrapHandle(syscall, args, env) ==
    /\ LET h == SyscallTrapHandle(sandbox.syscall_trap, syscall, args, env)
       IN /\ sandbox' = [sandbox EXCEPT !.syscall_trap = h.trap]
          /\ handled' = Append(handled, SyscallEntry(syscall, args, h.res))
    /\ UNCHANGED frame_trap

SbInitWith(limits_inputs) ==
    /\ now = 0
    /\ sandbox \in {SandboxNew(limits) : limits \in limits_inputs}
    /\ sb_result = NoSbResult
    /\ sb_errors = 0
    /\ sb_ops = 0
    /\ host_effects = <<>>

SbInit == SbInitWith(LimitsInputs)

---------------------------------------------------------------------------
(* debugger/breakpoints.rs: BreakpointManager.  breakpoints and address_map
   are functions on the keys they hold. *)

RECURSIVE BitOr(_, _)
\* x | y on non-negative integers
BitOr(x, y) ==
    IF x = 0 THEN y
    ELSE IF y = 0 THEN x
    ELSE (IF x % 2 = 1 \/ y % 2 = 1 THEN 1 ELSE 0) + 2 * BitOr(x \div 2, y \div 2)

\* function_index << 16 on a u32: the bits shifted out are lost
ShiftLeftHalf(x) == Wrap(x * (2 ^ HalfBits))

\* calculate_address
calculate_address(function_index, instruction_offset) ==
    BitOr(ShiftLeftHalf(function_index), instruction_offset)

\* HashMap::insert and HashMap::remove
MapInsert(map, key, value) ==
    [k \in (DOMAIN map) \cup {key} |-> IF k = key THEN value ELSE map[k]]
MapRemove(map, key) == [k \in (DOMAIN map) \ {key} |-> map[k]]

Breakpoint(id, function_index, instruction_offset, enabled, hit_count) ==
    [id |-> id, function_index |-> function_index,
     instruction_offset |-> instruction_offset,
     enabled |-> enabled, hit_count |-> hit_count]

\* BreakpointManager::new
BreakpointManagerNew == [breakpoints |-> <<>>, next_id |-> 1, address_map |-> <<>>]

BpReturn(m, ret, panic) == [bpm |-> m, ret |-> ret, panic |-> panic]

\* clear that takes the address out only when it still leads to this id
BreakpointClearOwnAddress(m, id) ==
    IF id \in DOMAIN m.breakpoints
    THEN LET bp == m.breakpoints[id]
             address == calculate_address(bp.function_index, bp.instruction_offset)
         IN BpReturn([m EXCEPT !.breakpoints = MapRemove(@, id),
                               !.address_map =
                                   IF address \in DOMAIN @ /\ @[address] = id
                                   THEN MapRemove(@, address) ELSE @],
                     TRUE, FALSE)
    ELSE BpReturn(m, FALSE, FALSE)

\* set: take next_id, count it up, insert the breakpoint under the id and the
\* id under the address
BreakpointSet(checks, m, function_index, instruction_offset) ==
    LET id == m.next_id
        address == calculate_address(function_index, instruction_offset)
    IN IF id + 1 > U32_MAX /\ checks
       THEN BpReturn(m, 0, TRUE)
       ELSE BpReturn([m EXCEPT !.next_id = Wrap(id + 1),
                               !.breakpoints =
                                   MapInsert(@, id, Breakpoint(id, function_index,
                                                               instruction_offset, TRUE, 0)),
                               !.address_map = MapInsert(@, address, id)],
                     id, FALSE)

\* clear: remove the breakpoint, and the entry of its address
BreakpointClear(m, id) ==
    IF id \in DOMAIN m.breakpoints
    THEN LET bp == m.breakpoints[id]
             address == calculate_address(bp.function_index, bp.instruction_offset)
         IN BpReturn([m EXCEPT !.breakpoints = MapRemove(@, id),
                               !.address_map = MapRemove(@, address)],
                     TRUE, FALSE)
    ELSE BpReturn(m, FALSE, FALSE)

\* enable and disable
BreakpointSetEnabled(m, id, enabled) ==
    IF id \in DOMAIN m.breakpoints
    THEN BpReturn([m EXCEPT !.breakpoints[id].enabled = enabled], TRUE, FALSE)
    ELSE BpReturn(m, FALSE, FALSE)

\* should_break that counts the hit of a disabled breakpoint too
ShouldBreakCountsDisabled(checks, m, address) ==
    IF address \in DOMAIN m.address_map /\ m.address_map[address] \in DOMAIN m.breakpoints
    THEN LET bp_id == m.address_map[address]
             bp == m.breakpoints[bp_id]
         IN BpReturn([m EXCEPT !.breakpoints[bp_id].hit_count = Wrap(@ + 1)],
                     bp.enabled, FALSE)
    ELSE BpReturn(m, FALSE, FALSE)

\* should_break: the breakpoint the address leads to, if enabled, is hit
ShouldBreak(checks, m, address) ==
    IF address \in DOMAIN m.address_map /\ m.address_map[address] \in DOMAIN m.breakpoints
    THEN LET bp_id == m.address_map[address]
             bp == m.breakpoints[bp_id]
         IN IF bp.enabled
            THEN IF bp.hit_count + 1 > U32_MAX /\ checks
                 THEN BpReturn(m, FALSE, TRUE)
                 ELSE BpReturn([m EXCEPT !.breakpoints[bp_id].hit_count = Wrap(@ + 1)],
                               TRUE, FALSE)
            ELSE BpReturn(m, FALSE, FALSE)
    ELSE BpReturn(m, FALSE, FALSE)

\* get_hit_count
get_hit_count(m, id) ==
    IF id \in DOMAIN m.breakpoints THEN Some(m.breakpoints[id].hit_count) ELSE None

\* clear_all
BreakpointClearAll(m) == [m EXCEPT !.breakpoints = <<>>, !.address_map = <<>>]

\* how many set calls are made, and how often one breakpoint is hit
MaxSets == 3
MaxHits == 2

\* where breakpoints are set: twice the same place, and two places with the
\* same address
PlaceInputs == {<<0, 1>>, <<1, 0>>, <<0, 2 ^ HalfBits>>}
BpIdInputs == 1 .. (MaxSets + 1)
BpAddressInputs == {calculate_address(p[1], p[2]) : p \in PlaceInputs} \cup {0}

BpResult(op, arg, r) == [op |-> op, arg |-> arg, ret |-> r.ret, panic |-> r.panic]
NoBpResult == BpResult("none", 0, BpReturn(BreakpointManagerNew, FALSE, FALSE))

BpSet(function_index, instruction_offset) ==
    /\ LET r == BreakpointSet(overflow_checks, bpm, function_index, instruction_offset)
       IN /\ bpm' = r.bpm
          /\ bp_result' = [op |-> "set",
                           arg |-> calculate_address(function_index, instruction_offset),
                           ret |-> FALSE, panic |-> r.panic]
          /\ bp_returned' = IF r.panic THEN bp_returned ELSE Append(bp_returned, r.ret)
    /\ UNCHANGED frame_bp

BpClear(id) ==
    /\ LET r == BreakpointClear(bpm, id)
       IN /\ bpm' = r.bpm
          /\ bp_result' = BpResult("clear", id, r)
    /\ UNCHANGED <<frame_bp, bp_returned>>

BpEnable(id) ==
    /\ LET r == BreakpointSetEnabled(bpm, id, TRUE)
       IN /\ bpm' = r.bpm
          /\ bp_result' = BpResult("enable", id, r)
    /\ UNCHANGED <<frame_bp, bp_returned>>

BpDisable(id) ==
    /\ LET r == BreakpointSetEnabled(bpm, id, FALSE)
       IN /\ bpm' = r.bpm
          /\ bp_result' = BpResult("disable", id, r)
    /\ UNCHANGED <<frame_bp, bp_returned>>

BpShouldBreak(address) ==
    /\ LET r == ShouldBreak(overflow_checks, bpm, address)
       IN /\ bpm' = r.bpm
          /\ bp_result' = BpResult("should_break", address, r)
    /\ UNCHANGED <<frame_bp, bp_returned>>

BpClearAll ==
    /\ bpm' = BreakpointClearAll(bpm)
    /\ bp_result' = BpResult("clear_all", 0, BpReturn(bpm, FALSE, FALSE))
    /\ UNCHANGED <<frame_bp, bp_returned>>

BpInit ==
    /\ bpm = BreakpointManagerNew
    /\ bp_result = NoBpResult
    /\ bp_returned = <<>>

---------------------------------------------------------------------------
(* debugger/tracer.rs: ExecutionTracer.  An Instant is the number of entries
   traced before it, and a Duration the difference of two of them. *)

\* max_entries of ExecutionTrace (10000 in the code, scaled), and the
\* capacity the syscall and function-call buffers are allocated with (1000)
TraceMaxEntries == 3
TraceSmallCapacity == 2

\* how many entries are traced and kept in tr_history
MaxTraces == 4

\* ExecutionTracer::new: with_capacity allocates, it sets no limit
ExecutionTracerNew ==
    [trace |-> [instructions |-> <<>>, syscalls |-> <<>>, function_calls |-> <<>>,
                hotspots |-> <<>>, max_entries |-> TraceMaxEntries],
     enabled |-> FALSE,
     current_function |-> None,
     call_stack |-> <<>>,
     hotspot_map |-> <<>>]

TraceEntry(timestamp, stack_depth) ==
    [timestamp |-> timestamp, instruction_pointer |-> 0, opcode |-> 32,
     args |-> <<42>>, stack_depth |-> stack_depth]

SyscallTrace(timestamp, name, args, result) ==
    [timestamp |-> timestamp, name |-> name, args |-> args, result |-> result]

FunctionCall(timestamp, function_index, caller_ip, args) ==
    [timestamp |-> timestamp, function_index |-> function_index,
     caller_ip |-> caller_ip, args |-> args, duration |-> None]

\* add_instruction_trace, add_syscall_trace, add_function_call_trace: pop the
\* front of a buffer that holds max_entries, then push
AddTrace(buffer, max_entries, entry) ==
    Append(IF Len(buffer) >= max_entries THEN Tail(buffer) ELSE buffer, entry)

\* update_hotspot: count a hit on the hotspot of the place (hit_count is a
\* u64: `+= 1` wraps, or panics with overflow checks and leaves the count)
update_hotspot(map, function_index, instruction_offset) ==
    LET key == calculate_address(function_index, instruction_offset)
        hit_count == IF key \in DOMAIN map THEN map[key] ELSE 0
    IN [k \in (DOMAIN map) \cup {key} |->
           IF k = key
           THEN (IF hit_count = U64_MAX /\ overflow_checks THEN hit_count
                 ELSE (hit_count + 1) % U64_MOD)
           ELSE map[k]]

\* update_hotspot panics: by the overflow of hit_count, or in
\* `total_time / hit_count as u32` when the count cut to a u32 is 0
update_hotspot_panics(map, function_index, instruction_offset) ==
    LET key == calculate_address(function_index, instruction_offset)
        hit_count == IF key \in DOMAIN map THEN map[key] ELSE 0
    IN \/ hit_count = U64_MAX /\ overflow_checks
       \/ ((hit_count + 1) % U64_MOD) % U32_MOD = 0

\* start and stop (update_hotspots: the hotspots, most hit first; one place
\* is ever traced)
TracerStart(t) == [t EXCEPT !.enabled = TRUE]
TracerStop(t) ==
    [t EXCEPT !.enabled = FALSE,
              !.trace.hotspots = [i \in 1 .. Cardinality(DOMAIN t.hotspot_map) |->
                                     t.hotspot_map[CHOOSE k \in DOMAIN t.hotspot_map : TRUE]]]

\* trace_instruction
trace_instruction(t, timestamp) ==
    IF ~t.enabled THEN t
    ELSE [t EXCEPT !.trace.instructions =
                       AddTrace(@, t.trace.max_entries,
                                TraceEntry(timestamp, Len(t.call_stack))),
                   !.hotspot_map = update_hotspot(@, 0, 0)]

\* trace_instruction panics, after it has added its entry
trace_instruction_panics(t) == t.enabled /\ update_hotspot_panics(t.hotspot_map, 0, 0)

\* what the simulated syscall returns
TraceSyscallResult(name) ==
    CASE name = "wasm_get_time" -> Some(42)
      [] name = "wasm_random" -> Some(123)
      [] OTHER -> Some(0)

\* trace_syscall
trace_syscall(t, timestamp, name, args) ==
    IF ~t.enabled THEN [tracer |-> t, ret |-> None]
    ELSE [tracer |-> [t EXCEPT !.trace.syscalls =
                          AddTrace(@, t.trace.max_entries,
                                   SyscallTrace(timestamp, name, args,
                                                TraceSyscallResult(name)))],
          ret |-> TraceSyscallResult(name)]

\* trace_function_call
trace_function_call(t, timestamp, function_index, caller_ip, args) ==
    IF ~t.enabled THEN t
    ELSE LET call == FunctionCall(timestamp, function_index, caller_ip, args)
         IN [t EXCEPT !.call_stack = Append(@, call),
                      !.current_function = Some(function_index),
                      !.trace.function_calls = AddTrace(@, t.trace.max_entries, call)]

\* trace_function_return: pop the call stack and, if the last record of the
\* function-call buffer has the function index of the popped call, put the
\* duration on that record
trace_function_return(t, instant) ==
    IF ~t.enabled \/ t.call_stack = <<>> THEN t
    ELSE LET call == t.call_stack[Len(t.call_stack)]
             rest == SubSeq(t.call_stack, 1, Len(t.call_stack) - 1)
             calls == t.trace.function_calls
             duration == Some(instant - call.timestamp)
         IN [t EXCEPT !.call_stack = rest,
                      !.current_function =
                          IF rest = <<>> THEN None ELSE Some(rest[Len(rest)].function_index),
                      !.trace.function_calls =
                          IF calls # <<>>
                             /\ calls[Len(calls)].function_index = call.function_index
                          THEN [calls EXCEPT ![Len(calls)].duration = duration]
                          ELSE calls]

TraceNameInputs == {"wasm_get_time", "wasm_log"}
TraceFunctionInputs == {0, 1}

\* the entries traced so far
Traced ==
    Len(tr_history.instructions) + Len(tr_history.syscalls) + Len(tr_history.function_calls)

TrStart ==
    /\ tracer' = TracerStart(tracer)
    /\ UNCHANGED <<frame_tr, tr_history>>

TrStop ==
    /\ tracer' = TracerStop(tracer)
    /\ UNCHANGED <<frame_tr, tr_history>>

TrInstruction ==
    /\ tracer' = trace_instruction(tracer, Traced)
    /\ tr_history' =
          IF tracer.enabled
          THEN [tr_history EXCEPT !.instructions =
                                      Append(@, TraceEntry(Traced, Len(tracer.call_stack)))]
          ELSE tr_history
    /\ UNCHANGED frame_tr

TrSyscall(name) ==
    /\ tracer' = trace_syscall(tracer, Traced, name, <<>>).tracer
    /\ tr_history' =
          IF tracer.enabled
          THEN [tr_history EXCEPT !.syscalls =
                                      Append(@, SyscallTrace(Traced, name, <<>>,
                                                             TraceSyscallResult(name)))]
          ELSE tr_history
    /\ UNCHANGED frame_tr

TrFunctionCall(function_index) ==
    /\ tracer' = trace_function_call(tracer, Traced, function_index, 0, <<>>)
    /\ tr_history' =
          IF tracer.enabled
          THEN [tr_history EXCEPT !.function_calls =
                                      Append(@, FunctionCall(Traced, function_index, 0, <<>>))]
          ELSE tr_history
    /\ UNCHANGED frame_tr

TrFunctionReturn ==
    /\ tracer' = trace_function_return(tracer, Traced)
    /\ UNCHANGED <<frame_tr, tr_history>>

TrInit ==
    /\ tracer = ExecutionTracerNew
    /\ tr_history = [instructions |-> <<>>, syscalls |-> <<>>, function_calls |-> <<>>]

---------------------------------------------------------------------------
(* sandbox/policy.rs: SecurityPolicy and PolicyBuilder.  The whitelist and
   the blacklist are Vecs: sequences, with repetitions.  The limits are
   scaled; validate compares them with zero only. *)

\* ResourceLimits::strict, default and permissive
LimitsStrict == ResourceLimits(1, 1, 1, StrictInstructions)
LimitsDefault == ResourceLimits(2, 2, 2, StrictInstructions + 1)
LimitsPermissive == ResourceLimits(3, 3, 3, StrictInstructions + 2)

\* Vec::contains
Contains(vec, x) == \E i \in 1 .. Len(vec) : vec[i] = x

NetworkPolicyDefault ==
    [allow_outbound |-> FALSE, allow_inbound |-> FALSE,
     allowed_hosts |-> <<>>, allowed_ports |-> <<>>]
FilePolicyDefault ==
    [allow_read |-> FALSE, allow_write |-> FALSE,
     allowed_paths |-> <<>>, denied_paths |-> <<>>]

SecurityPolicy(name, limits, capabilities, whitelist, blacklist) ==
    [name |-> name, resource_limits |-> limits, allowed_capabilities |-> capabilities,
     syscall_whitelist |-> whitelist, syscall_blacklist |-> blacklist,
     network_policy |-> NetworkPolicyDefault, file_policy |-> FilePolicyDefault]

\* SecurityPolicy::strict, sensor_access, alert_system, development
PolicyStrict ==
    SecurityPolicy("Strict", LimitsStrict, CapabilitySetGrant(CapabilitySetNew, Cap("Log")),
                   <<"wasm_log">>,
                   <<"open", "read", "write", "socket", "connect", "exec", "fork">>)
PolicySensorAccess ==
    SecurityPolicy("Sensor Access", LimitsDefault,
                   CapabilitySetGrant(with_basic, ReadSensor("Any")),
                   <<"wasm_log", "wasm_get_time", "wasm_random", "wasm_read_sensor">>,
                   <<"open", "socket", "exec", "fork">>)
PolicyAlertSystem ==
    SecurityPolicy("Alert System", LimitsDefault,
                   CapabilitySetGrant(CapabilitySetGrant(with_basic, ReadSensor("Any")),
                                      SendAlert("Any")),
                   <<"wasm_log", "wasm_get_time", "wasm_random", "wasm_read_sensor",
                     "wasm_send_alert">>,
                   <<"open", "socket", "exec", "fork">>)
PolicyDevelopment ==
    SecurityPolicy("Development", LimitsPermissive,
                   CapabilitySetGrant(CapabilitySetGrant(CapabilitySetGrant(with_basic,
                       ReadSensor("Any")), SendAlert("Any")), Cap("MemoryGrow")),
                   <<"wasm_log", "wasm_get_time", "wasm_random", "wasm_read_sensor",
                     "wasm_send_alert">>,
                   <<"exec", "fork">>)

\* PolicyBuilder::new (SecurityPolicy::custom)
PolicyBuilderNew == SecurityPolicy("Custom", LimitsDefault, CapabilitySetNew, <<>>, <<>>)

\* is_syscall_allowed asking the whitelist first
is_syscall_allowed_whitelist_first(p, syscall) ==
    IF p.syscall_whitelist # <<>> /\ Contains(p.syscall_whitelist, syscall) THEN TRUE
    ELSE IF Contains(p.syscall_blacklist, syscall) THEN FALSE
    ELSE p.syscall_whitelist = <<>>

\* is_syscall_allowed
is_syscall_allowed(p, syscall) ==
    IF Contains(p.syscall_blacklist, syscall) THEN FALSE
    ELSE IF p.syscall_whitelist # <<>> THEN Contains(p.syscall_whitelist, syscall)
    ELSE TRUE

PolicyOk == [ok |-> TRUE, err |-> "", syscall |-> ""]
PolicyErr(text, syscall) == [ok |-> FALSE, err |-> text, syscall |-> syscall]

\* validate without the check of the CPU time
validate_no_cpu(p) ==
    LET conflicts == {i \in 1 .. Len(p.syscall_whitelist) :
                         Contains(p.syscall_blacklist, p.syscall_whitelist[i])}
    IN IF conflicts # {}
       THEN PolicyErr("is both whitelisted and blacklisted",
                      p.syscall_whitelist[CHOOSE i \in conflicts : \A j \in conflicts : i <= j])
       ELSE IF p.resource_limits.max_memory_pages = 0
       THEN PolicyErr("Memory limit cannot be zero", "")
       ELSE PolicyOk

\* validate: the first whitelisted name that is blacklisted too, then a
\* memory limit of zero, then a CPU time of zero
validate(p) ==
    LET conflicts == {i \in 1 .. Len(p.syscall_whitelist) :
                         Contains(p.syscall_blacklist, p.syscall_whitelist[i])}
    IN IF conflicts # {}
       THEN PolicyErr("is both whitelisted and blacklisted",
                      p.syscall_whitelist[CHOOSE i \in conflicts : \A j \in conflicts : i <= j])
       ELSE IF p.resource_limits.max_memory_pages = 0
       THEN PolicyErr("Memory limit cannot be zero", "")
       ELSE IF p.resource_limits.max_cpu_time = 0
       THEN PolicyErr("CPU time limit cannot be zero", "")
       ELSE PolicyOk

\* PolicyBuilder::build: the policy, if it is valid
build(p) == validate(p)

\* how long the lists of a built policy get
MaxListLen == 2

PolicyNameInputs == {"wasm_log", "wasm_read_sensor", "open"}
PolicyLimitsInputs ==
    {LimitsDefault, ResourceLimits(0, 1, 1, 1), ResourceLimits(1, 0, 1, 1)}
PresetInputs == {PolicyStrict, PolicySensorAccess, PolicyAlertSystem, PolicyDevelopment}

PolicyResult(op, syscall, allowed, r) ==
    [op |-> op, name |-> syscall, allowed |-> allowed,
     ok |-> r.ok, err |-> r.err, syscall |-> r.syscall]
NoPolicyResult == PolicyResult("none", "", FALSE, PolicyOk)

\* SecurityPolicy::custom(), or one of the presets
PolicyCustom ==
    /\ policy' = PolicyBuilderNew
    /\ policy_result' = NoPolicyResult
    /\ UNCHANGED frame_policy

PolicyPreset(p) ==
    /\ policy' = p
    /\ policy_result' = NoPolicyResult
    /\ UNCHANGED frame_policy

PbResourceLimits(limits) ==
    /\ policy' = [policy EXCEPT !.resource_limits = limits]
    /\ policy_result' = NoPolicyResult
    /\ UNCHANGED frame_policy

PbAllowSyscall(syscall) ==
    /\ policy' = [policy EXCEPT !.syscall_whitelist = Append(@, syscall)]
    /\ policy_result' = NoPolicyResult
    /\ UNCHANGED frame_policy

PbDenySyscall(syscall) ==
    /\ policy' = [policy EXCEPT !.syscall_blacklist = Append(@, syscall)]
    /\ policy_result' = NoPolicyResult
    /\ UNCHANGED frame_policy

PbBuild ==
    /\ policy_result' = PolicyResult("build", "", FALSE, build(policy))
    /\ UNCHANGED <<frame_policy, policy>>

PolicyValidate ==
    /\ policy_result' = PolicyResult("validate", "", FALSE, validate(policy))
    /\ UNCHANGED <<frame_policy, policy>>

PolicyIsSyscallAllowed(syscall) ==
    /\ policy_result' = PolicyResult("is_syscall_allowed", syscall,
                                     is_syscall_allowed(policy, syscall), PolicyOk)
    /\ UNCHANGED <<frame_policy, policy>>

PolicyInit ==
    /\ policy = PolicyBuilderNew
    /\ policy_result = NoPolicyResult

---------------------------------------------------------------------------
(* debugger/mod.rs: WasmDebugger.  Its BreakpointManager is bpm and its
   ExecutionTracer is tracer; dbg holds the enabled flag, the StateInspector
   and, while continue_execution or step_out is in its loop, which loop. *)

\* StateInspector::new (memory and registers, which no step reads, left out)
StateInspectorNew ==
    [current_ip |-> 0, stack_pointer |-> 0, locals |-> <<>>, call_stack |-> <<>>]

\* get_current_state and get_call_depth
get_current_state(inspector) ==
    [instruction_pointer |-> inspector.current_ip,
     stack_pointer |-> inspector.stack_pointer,
     locals |-> inspector.locals,
     memory_size |-> 0,
     call_stack |-> inspector.call_stack]
get_call_depth(inspector) == Len(inspector.call_stack)

\* WasmDebugger::new
WasmDebuggerNew == [enabled |-> FALSE, inspector |-> StateInspectorNew, pc |-> "idle"]

DbgOk(info) == [ok |-> TRUE, err |-> "", info |-> info]
DbgErr(text) == [ok |-> FALSE, err |-> text, info |-> get_current_state(StateInspectorNew)]

\* step_into: trace one instruction, return the inspector's state
step_into(d, t, timestamp) ==
    [tracer |-> trace_instruction(t, timestamp), pc |-> "idle",
     res |-> IF trace_instruction_panics(t) THEN DbgErr("panic")
             ELSE DbgOk(get_current_state(d.inspector))]

\* step_over: step_into until the call depth is back; no step changes the
\* inspector, so once
step_over(d, t, timestamp) == step_into(d, t, timestamp)

\* step_out: an error at the top level, else step_into until the call depth
\* is lower
step_out(d, t, timestamp) ==
    IF get_call_depth(d.inspector) = 0
    THEN [tracer |-> t, pc |-> "idle", res |-> DbgErr("Already at top level")]
    ELSE [tracer |-> t, pc |-> "step_out", res |-> DbgErr("running")]

\* step without the check of enabled
step_unchecked(d, t, mode, timestamp) ==
    CASE mode = "Into" -> step_into(d, t, timestamp)
      [] mode = "Over" -> step_over(d, t, timestamp)
      [] mode = "Out" -> step_out(d, t, timestamp)

\* step
step(d, t, mode, timestamp) ==
    IF ~d.enabled
    THEN [tracer |-> t, pc |-> "idle", res |-> DbgErr("Debugger not enabled")]
    ELSE CASE mode = "Into" -> step_into(d, t, timestamp)
           [] mode = "Over" -> step_over(d, t, timestamp)
           [] mode = "Out" -> step_out(d, t, timestamp)

\* continue_execution, up to its loop
continue_execution(d, t) ==
    IF ~d.enabled
    THEN [tracer |-> t, pc |-> "idle", res |-> DbgErr("Debugger not enabled")]
    ELSE [tracer |-> t, pc |-> "continue", res |-> DbgErr("running")]

\* how many calls of step and continue_execution are made
MaxDbgCalls == 2

StepModes == {"Into", "Over", "Out"}
DbgPlaceInputs == {<<0, 0>>, <<0, 1>>}

DbgResult(op, mode, res) ==
    [op |-> op, mode |-> mode, ok |-> res.ok, err |-> res.err, info |-> res.info]

\* the entry trace_instruction appends, when the tracer is enabled (the
\* first MaxTraces entries are kept, and the clock stops with them)
TracedInstruction ==
    IF tracer.enabled /\ Traced < MaxTraces
    THEN [tr_history EXCEPT !.instructions =
                                Append(@, TraceEntry(Traced, Len(tracer.call_stack)))]
    ELSE tr_history

DbgEnable ==
    /\ dbg' = [dbg EXCEPT !.enabled = TRUE]
    /\ tracer' = TracerStart(tracer)
    /\ UNCHANGED <<frame_dbg, bpm, tr_history, dbg_result, dbg_calls>>

DbgDisable ==
    /\ dbg' = [dbg EXCEPT !.enabled = FALSE]
    /\ tracer' = TracerStop(tracer)
    /\ UNCHANGED <<frame_dbg, bpm, tr_history, dbg_result, dbg_calls>>

DbgStep(mode) ==
    /\ LET r == step(dbg, tracer, mode, Traced)
       IN /\ tracer' = r.tracer
          /\ tr_history' = IF r.tracer # tracer THEN TracedInstruction ELSE tr_history
          /\ dbg' = [dbg EXCEPT !.pc = r.pc]
          /\ dbg_result' = DbgResult("step", mode, r.res)
    /\ dbg_calls' = dbg_calls + 1
    /\ UNCHANGED <<frame_dbg, bpm>>

DbgContinue ==
    /\ LET r == continue_execution(dbg, tracer)
       IN /\ tracer' = r.tracer
          /\ dbg' = [dbg EXCEPT !.pc = r.pc]
          /\ dbg_result' = DbgResult("continue_execution", "", r.res)
    /\ dbg_calls' = dbg_calls + 1
    /\ UNCHANGED <<frame_dbg, bpm, tr_history>>

\* one turn of the loop of continue_execution: step_into, and return if
\* should_break says so; or of the loop of step_out: step_into, and return
\* if the call depth is below current_depth (the depth step_out was called
\* at, which is the inspector's depth still: no step changes the inspector).
\* A panic of step_into or of should_break ends the call.
DbgLoop ==
    /\ dbg.pc # "idle"
    /\ LET s == step_into(dbg, tracer, Traced)
           b == ShouldBreak(overflow_checks, bpm, s.res.info.instruction_pointer)
           current_depth == get_call_depth(dbg.inspector)
           op == IF dbg.pc = "continue" THEN "continue_execution" ELSE "step"
           mode == IF dbg.pc = "continue" THEN "" ELSE "Out"
       IN /\ tracer' = s.tracer
          /\ tr_history' = TracedInstruction
          /\ IF s.res.err = "panic"
             THEN /\ bpm' = bpm
                  /\ dbg' = [dbg EXCEPT !.pc = "idle"]
                  /\ dbg_result' = DbgResult(op, mode, s.res)
             ELSE IF dbg.pc = "continue"
             THEN /\ bpm' = b.bpm
                  /\ dbg' = [dbg EXCEPT !.pc = IF b.ret \/ b.panic THEN "idle" ELSE @]
                  /\ dbg_result' =
                        IF b.panic THEN DbgResult(op, mode, DbgErr("panic"))
                        ELSE IF b.ret THEN DbgResult(op, mode, s.res)
                        ELSE dbg_result
             ELSE /\ bpm' = bpm
                  /\ dbg' = [dbg EXCEPT !.pc = IF get_call_depth(dbg.inspector) < current_depth
                                               THEN "idle" ELSE @]
                  /\ dbg_result' =
                        IF get_call_depth(dbg.inspector) < current_depth
                        THEN DbgResult(op, mode, s.res)
                        ELSE dbg_result
    /\ UNCHANGED <<frame_dbg, dbg_calls>>

\* how many frames are pushed onto the inspector's call stack
MaxDepth == 2

CallFrame(function_index, ip, locals_start) ==
    [function_index |-> function_index, instruction_pointer |-> ip,
     locals_start |-> locals_start]

\* StateInspector::push_call_frame and pop_call_frame
push_call_frame(inspector, function_index, ip, locals_start) ==
    [inspector EXCEPT !.call_stack = Append(@, CallFrame(function_index, ip, locals_start))]
pop_call_frame(inspector) ==
    [inspector EXCEPT !.call_stack = IF @ = <<>> THEN @ ELSE SubSeq(@, 1, Len(@) - 1)]

\* push_call_frame and pop_call_frame on the inspector of the debugger (the
\* field is private to the debugger module, and no method of WasmDebugger
\* calls them)
DbgPushFrame(function_index) ==
    /\ dbg' = [dbg EXCEPT !.inspector = push_call_frame(@, function_index, 0, 0)]
    /\ UNCHANGED <<frame_dbg, bpm, tracer, tr_history, dbg_result, dbg_calls>>

DbgPopFrame ==
    /\ dbg' = [dbg EXCEPT !.inspector = pop_call_frame(@)]
    /\ UNCHANGED <<frame_dbg, bpm, tracer, tr_history, dbg_result, dbg_calls>>

DbgInit ==
    /\ dbg = WasmDebuggerNew
    /\ dbg_result = DbgResult("none", "", DbgErr(""))
    /\ dbg_calls = 0

---------------------------------------------------------------------------
(* parser.rs: WasmParser.  A read takes the bytes and the position of the
   cursor and returns the new position with the value read, or the error. *)

Rd(pos, val) == [ok |-> TRUE, pos |-> pos, val |-> val, err |-> "none"]
RdErr(err) == [ok |-> FALSE, pos |-> 0, val |-> 0, err |-> err]

\* "\0asm" and version 1, as the little-endian bytes read_u32 takes
WASM_MAGIC == <<0, 97, 115, 109>>
WASM_VERSION == <<1, 0, 0, 0>>

\* Cursor::read_u8, read_u32::<LittleEndian> (its four bytes) and read_exact
read_u8(bytes, pos) ==
    IF pos < Len(bytes) THEN Rd(pos + 1, bytes[pos + 1]) ELSE RdErr("Io")
read_u32_le(bytes, pos) ==
    IF pos + 4 <= Len(bytes) THEN Rd(pos + 4, SubSeq(bytes, pos + 1, pos + 4))
    ELSE RdErr("Io")
read_exact(bytes, pos, len) ==
    IF pos + len <= Len(bytes) THEN Rd(pos + len, SubSeq(bytes, pos + 1, pos + len))
    ELSE RdErr("Io")

\* String::from_utf8_lossy, for bytes below 0xC0: a byte from 0x80 on starts
\* no character and becomes U+FFFD
from_utf8_lossy(name_bytes) ==
    [i \in 1 .. Len(name_bytes) |-> IF name_bytes[i] < 128 THEN name_bytes[i] ELSE 65533]

RECURSIVE Leb128(_, _, _, _)
\* the loop of read_leb128_u32
Leb128(bytes, pos, result, shift) ==
    LET b == read_u8(bytes, pos)
    IN IF ~b.ok THEN b
       ELSE LET r == BitOr(result, (b.val % 128) * (2 ^ shift))
            IN IF b.val < 128 THEN Rd(b.pos, r)
               ELSE IF shift + 7 >= 32 THEN RdErr("InvalidModule")
               ELSE Leb128(bytes, b.pos, r, shift + 7)

read_leb128_u32(bytes, pos) == Leb128(bytes, pos, 0, 0)

read_value_type(bytes, pos) ==
    LET b == read_u8(bytes, pos)
    IN IF ~b.ok THEN b
       ELSE CASE b.val = 127 -> Rd(b.pos, "I32")
              [] b.val = 126 -> Rd(b.pos, "I64")
              [] b.val = 125 -> Rd(b.pos, "F32")
              [] b.val = 124 -> Rd(b.pos, "F64")
              [] OTHER -> RdErr("InvalidModule")

RECURSIVE ValueTypes(_, _, _, _)
\* for _ in 0..count { push(read_value_type) }
ValueTypes(bytes, pos, count, acc) ==
    IF count = 0 THEN Rd(pos, acc)
    ELSE LET v == read_value_type(bytes, pos)
         IN IF ~v.ok THEN v ELSE ValueTypes(bytes, v.pos, count - 1, Append(acc, v.val))

RECURSIVE TypeEntries(_, _, _, _)
TypeEntries(bytes, pos, count, acc) ==
    IF count = 0 THEN Rd(pos, acc)
    ELSE LET form == read_u8(bytes, pos)
             param_count == read_leb128_u32(bytes, form.pos)
             params == ValueTypes(bytes, param_count.pos, param_count.val, <<>>)
             result_count == read_leb128_u32(bytes, params.pos)
             results == ValueTypes(bytes, result_count.pos, result_count.val, <<>>)
         IN IF ~form.ok THEN form
            ELSE IF form.val # 96 THEN RdErr("InvalidModule")
            ELSE IF ~param_count.ok THEN param_count
            ELSE IF ~params.ok THEN params
            ELSE IF ~result_count.ok THEN result_count
            ELSE IF ~results.ok THEN results
            ELSE TypeEntries(bytes, results.pos, count - 1,
                             Append(acc, [params |-> params.val, results |-> results.val]))

parse_type_section(bytes, pos) ==
    LET count == read_leb128_u32(bytes, pos)
    IN IF ~count.ok THEN count ELSE TypeEntries(bytes, count.pos, count.val, <<>>)

RECURSIVE FunctionEntries(_, _, _, _)
FunctionEntries(bytes, pos, count, acc) ==
    IF count = 0 THEN Rd(pos, acc)
    ELSE LET type_idx == read_leb128_u32(bytes, pos)
         IN IF ~type_idx.ok THEN type_idx
            ELSE FunctionEntries(bytes, type_idx.pos, count - 1,
                                 Append(acc, [type_idx |-> type_idx.val]))

\* parse_function_section: the type indices as they are read
parse_function_section(bytes, pos) ==
    LET count == read_leb128_u32(bytes, pos)
    IN IF ~count.ok THEN count ELSE FunctionEntries(bytes, count.pos, count.val, <<>>)

NoMemoryType == [some |-> FALSE, min |-> 0, max |-> None]

parse_memory_section(bytes, pos) ==
    LET count == read_leb128_u32(bytes, pos)
        flags == read_u8(bytes, count.pos)
        min == read_leb128_u32(bytes, flags.pos)
        max == read_leb128_u32(bytes, min.pos)
    IN IF ~count.ok THEN count
       ELSE IF count.val = 0 THEN Rd(count.pos, NoMemoryType)
       ELSE IF ~flags.ok THEN flags
       ELSE IF ~min.ok THEN min
       ELSE IF flags.val % 2 = 1
       THEN IF ~max.ok THEN max
            ELSE Rd(max.pos, [some |-> TRUE, min |-> min.val, max |-> Some(max.val)])
       ELSE Rd(min.pos, [some |-> TRUE, min |-> min.val, max |-> None])

RECURSIVE ExportEntries(_, _, _, _)
ExportEntries(bytes, pos, count, acc) ==
    IF count = 0 THEN Rd(pos, acc)
    ELSE LET name_len == read_leb128_u32(bytes, pos)
             name_bytes == read_exact(bytes, name_len.pos, name_len.val)
             kind == read_u8(bytes, name_bytes.pos)
             index == read_leb128_u32(bytes, kind.pos)
         IN IF ~name_len.ok THEN name_len
            ELSE IF ~name_bytes.ok THEN name_bytes
            ELSE IF ~kind.ok THEN kind
            ELSE IF kind.val \notin 0 .. 3 THEN RdErr("InvalidModule")
            ELSE IF ~index.ok THEN index
            ELSE ExportEntries(bytes, index.pos, count - 1,
                    Append(acc, [name |-> from_utf8_lossy(name_bytes.val),
                                 kind |-> CASE kind.val = 0 -> "Function"
                                            [] kind.val = 1 -> "Table"
                                            [] kind.val = 2 -> "Memory"
                                            [] kind.val = 3 -> "Global",
                                 index |-> index.val]))

\* parse_export_section: name, kind and index as they are read
parse_export_section(bytes, pos) ==
    LET count == read_leb128_u32(bytes, pos)
    IN IF ~count.ok THEN count ELSE ExportEntries(bytes, count.pos, count.val, <<>>)

RECURSIVE LocalEntries(_, _, _, _)
LocalEntries(bytes, pos, count, acc) ==
    IF count = 0 THEN Rd(pos, acc)
    ELSE LET n == read_leb128_u32(bytes, pos)
             value_type == read_value_type(bytes, n.pos)
         IN IF ~n.ok THEN n
            ELSE IF ~value_type.ok THEN value_type
            ELSE LocalEntries(bytes, value_type.pos, count - 1,
                              Append(acc, [count |-> n.val, value_type |-> value_type.val]))

RECURSIVE CodeEntries(_, _, _, _, _)
\* the body is body_size - position bytes long: a u32 subtraction, which
\* panics below zero with overflow checks, and without them asks for more
\* bytes than there are
CodeEntries(checks, bytes, pos, count, acc) ==
    IF count = 0 THEN Rd(pos, acc)
    ELSE LET body_size == read_leb128_u32(bytes, pos)
             local_count == read_leb128_u32(bytes, body_size.pos)
             locals == LocalEntries(bytes, local_count.pos, local_count.val, <<>>)
             body == read_exact(bytes, locals.pos, body_size.val - locals.pos)
         IN IF ~body_size.ok THEN body_size
            ELSE IF ~local_count.ok THEN local_count
            ELSE IF ~locals.ok THEN locals
            ELSE IF body_size.val < locals.pos
            THEN (IF checks THEN RdErr("panic") ELSE RdErr("Io"))
            ELSE IF ~body.ok THEN body
            ELSE CodeEntries(checks, bytes, body.pos, count - 1,
                             Append(acc, [locals |-> locals.val, body |-> body.val]))

parse_code_section(checks, bytes, pos) ==
    LET count == read_leb128_u32(bytes, pos)
    IN IF ~count.ok THEN count ELSE CodeEntries(checks, bytes, count.pos, count.val, <<>>)

EmptyModule ==
    [types |-> <<>>, functions |-> <<>>, memory |-> NoMemoryType, exports |-> <<>>,
     code |-> <<>>]

ParseOk(module) == [ok |-> TRUE, err |-> "none", module |-> module]
ParseErr(err) == [ok |-> FALSE, err |-> err, module |-> EmptyModule]

RECURSIVE Sections(_, _, _, _)
\* the loop over the sections: each parsed section replaces the module's
\* field, a section of another id is skipped by its size
Sections(checks, bytes, pos, module) ==
    IF pos >= Len(bytes) THEN ParseOk(module)
    ELSE LET section_id == read_u8(bytes, pos)
             section_size == read_leb128_u32(bytes, section_id.pos)
             at == section_size.pos
             s == CASE section_id.val = 1 -> parse_type_section(bytes, at)
                    [] section_id.val = 3 -> parse_function_section(bytes, at)
                    [] section_id.val = 5 -> parse_memory_section(bytes, at)
                    [] section_id.val = 7 -> parse_export_section(bytes, at)
                    [] section_id.val = 10 -> parse_code_section(checks, bytes, at)
                    [] OTHER -> Rd(at + section_size.val, 0)
         IN IF ~section_id.ok THEN ParseErr(section_id.err)
            ELSE IF ~section_size.ok THEN ParseErr(section_size.err)
            ELSE IF ~s.ok THEN ParseErr(s.err)
            ELSE Sections(checks, bytes, s.pos,
                    CASE section_id.val = 1 -> [module EXCEPT !.types = s.val]
                      [] section_id.val = 3 -> [module EXCEPT !.functions = s.val]
                      [] section_id.val = 5 -> [module EXCEPT !.memory = s.val]
                      [] section_id.val = 7 -> [module EXCEPT !.exports = s.val]
                      [] section_id.val = 10 -> [module EXCEPT !.code = s.val]
                      [] OTHER -> module)

\* WasmParser::parse
parse(checks, bytes) ==
    LET magic == read_u32_le(bytes, 0)
        version == read_u32_le(bytes, magic.pos)
    IN IF ~magic.ok THEN ParseErr("Io")
       ELSE IF magic.val # WASM_MAGIC THEN ParseErr("InvalidMagic")
       ELSE IF ~version.ok THEN ParseErr("Io")
       ELSE IF version.val # WASM_VERSION THEN ParseErr("UnsupportedVersion")
       ELSE Sections(checks, bytes, version.pos, EmptyModule)

\* how many bytes of any kind follow the header
MaxBody == 4

\* the bytes they are taken from: section ids, counts, the form of a
\* function type, and a byte that continues a LEB128 number
BodyBytes == {0, 1, 3, 5, 7, 10, 96, 128}

RECURSIVE SeqsUpTo(_, _)
\* the sequences over a set, up to a length
SeqsUpTo(S, n) ==
    IF n = 0 THEN {<<>>}
    ELSE LET shorter == SeqsUpTo(S, n - 1)
         IN shorter \cup {Append(s, x) : s \in {t \in shorter : Len(t) = n - 1}, x \in S}

\* whole sections: one type, a function of type 0 and one of type 1, a
\* memory, exports of function 0, memory 0 and global 0, and code with a
\* body_size of 13 (the position the body starts at, after the header) and
\* of 0
SectionInputs ==
    {<<1, 4, 1, 96, 0, 0>>, <<3, 2, 1, 0>>, <<3, 2, 1, 1>>, <<5, 3, 1, 0, 1>>,
     <<7, 5, 1, 1, 102, 0, 0>>, <<7, 5, 1, 1, 109, 2, 0>>, <<7, 5, 1, 1, 103, 3, 0>>,
     <<10, 4, 1, 13, 0>>, <<10, 4, 1, 0, 0>>}

\* a code section with one function: the section id and size, the count,
\* body_size (the bytes of the locals header and of the opcodes), the locals
\* header and the opcodes
CodeSectionOf(locals_header, opcodes) ==
    <<10, Len(locals_header) + Len(opcodes) + 2, 1, Len(locals_header) + Len(opcodes)>>
        \o locals_header \o opcodes

\* locals headers (none, and one i32) with the locals they stand for; the
\* opcodes of a body (end; i32.const 1, end); and what comes before the code
\* section: nothing, or the type, function and export sections
LocalsInputs ==
    {[header |-> <<0>>, locals |-> <<>>],
     [header |-> <<1, 1, 127>>, locals |-> <<[count |-> 1, value_type |-> "I32"]>>]}
OpcodeInputs == {<<11>>, <<65, 1, 11>>}
PrefixInputs ==
    {<<>>, <<1, 4, 1, 96, 0, 0>>,
     <<1, 4, 1, 96, 0, 0>> \o <<3, 2, 1, 0>> \o <<7, 5, 1, 1, 102, 0, 0>>}
WellFormedInputs ==
    {WASM_MAGIC \o WASM_VERSION \o prefix \o CodeSectionOf(l.header, opcodes) :
        prefix \in PrefixInputs, l \in LocalsInputs, opcodes \in OpcodeInputs}

ParseInputs ==
    {WASM_MAGIC \o WASM_VERSION \o body : body \in SeqsUpTo(BodyBytes, MaxBody)}
    \cup {WASM_MAGIC \o WASM_VERSION \o a : a \in SectionInputs}
    \cup {WASM_MAGIC \o WASM_VERSION \o a \o b : a \in SectionInputs, b \in SectionInputs}
    \cup {<<0, 0, 0, 0, 1, 0, 0, 0>>, WASM_MAGIC \o <<2, 0, 0, 0>>, <<0, 97>>}
    \cup WellFormedInputs

NotParsed == ParseErr("not parsed")

ParserParse ==
    /\ parse_result' = parse(overflow_checks, parse_input)
    /\ UNCHANGED <<frame_parser, parse_input>>

ParserInit ==
    /\ parse_input = <<>>
    /\ parse_result = NotParsed

---------------------------------------------------------------------------
(* static_analysis: PatternMatcher (patterns.rs), SecurityAnalyzer
   (security.rs) and StaticAnalyzer (mod.rs).  Opcodes are the bytes of the
   source; a name is the sequence of its characters, so that str::contains
   is a search for a subsequence.  The estimate of resources, the usage
   count of a syscall function and the capability inference do not enter
   the risk score and are left out. *)

\* slice == pattern at some offset; str::contains for names
IsInfix(pattern, s) ==
    \E i \in 0 .. Len(s) - Len(pattern) : SubSeq(s, i + 1, i + Len(pattern)) = pattern

Pattern(name, opcodes, risk_level) == [name |-> name, opcodes |-> opcodes, risk_level |-> risk_level]

\* PatternMatcher::load_patterns
load_patterns ==
    << Pattern("InfiniteLoop", <<3, 64, 12, 0, 11>>, "Severe"),
       Pattern("MemoryBomb", <<64, 0>>, "Warning"),
       Pattern("DeepRecursion", <<16>>, "Warning"),
       Pattern("IndirectCall", <<17>>, "Warning"),
       Pattern("UnalignedAccess", <<40, 0>>, "Warning"),
       Pattern("StackManipulation", <<26, 27>>, "OK"),
       Pattern("CryptoOperations", <<115, 116, 117>>, "OK") >>

RECURSIVE MatchesFrom(_, _, _)
MatchesFrom(bytecode, pattern, i) ==
    IF i > Len(bytecode) - Len(pattern) THEN <<>>
    ELSE (IF SubSeq(bytecode, i + 1, i + Len(pattern)) = pattern THEN <<i>> ELSE <<>>)
         \o MatchesFrom(bytecode, pattern, i + 1)

\* PatternMatcher::find_pattern_matches: the offsets of the pattern, ascending
find_pattern_matches(bytecode, pattern) ==
    IF pattern = <<>> \/ Len(bytecode) < Len(pattern) THEN <<>>
    ELSE MatchesFrom(bytecode, pattern, 0)

SuspiciousPattern(pattern, func_idx, offset) ==
    [pattern_name |-> pattern.name, function_index |-> func_idx,
     instruction_offset |-> offset, risk_level |-> pattern.risk_level]

RECURSIVE FindingsOf(_, _, _)
\* the findings of patterns k.. in one function body
FindingsOf(bytecode, func_idx, k) ==
    IF k > Len(load_patterns) THEN <<>>
    ELSE LET matches == find_pattern_matches(bytecode, load_patterns[k].opcodes)
         IN [n \in 1 .. Len(matches) |->
                SuspiciousPattern(load_patterns[k], func_idx, matches[n])]
            \o FindingsOf(bytecode, func_idx, k + 1)

RECURSIVE FindingsFrom(_, _)
FindingsFrom(code, f) ==
    IF f > Len(code) THEN <<>>
    ELSE FindingsOf(code[f].body, f - 1, 1) \o FindingsFrom(code, f + 1)

\* PatternMatcher::find_patterns
find_patterns(module) == FindingsFrom(module.code, 1)

RECURSIVE ComplexityFrom(_, _, _)
\* the while loop of calculate_cyclomatic_complexity at index i (from 0)
ComplexityFrom(bytecode, i, complexity) ==
    IF i >= Len(bytecode) THEN complexity
    ELSE LET op == bytecode[i + 1]
         IN IF op \in {4, 5, 3, 2, 12, 13}
            THEN ComplexityFrom(bytecode, i + 1, complexity + 1)
            ELSE IF op = 14
            THEN (IF i + 1 < Len(bytecode)
                  THEN ComplexityFrom(bytecode, i + 1 + bytecode[i + 2] + 1 + 1, complexity + 1)
                  ELSE ComplexityFrom(bytecode, i + 1 + 1, complexity + 1))
            ELSE ComplexityFrom(bytecode, i + 1, complexity)

calculate_cyclomatic_complexity(bytecode) == ComplexityFrom(bytecode, 0, 1)

RECURSIVE ControlFlowFrom(_, _)
ControlFlowFrom(code, f) ==
    IF f > Len(code) THEN 0
    ELSE calculate_cyclomatic_complexity(code[f].body) + ControlFlowFrom(code, f + 1)

\* PatternMatcher::analyze_control_flow
analyze_control_flow(module) == ControlFlowFrom(module.code, 1)

\* how many bytes of the body are in the set
CountIn(bytecode, set) == Cardinality({i \in 1 .. Len(bytecode) : bytecode[i] \in set})

RECURSIVE WritesFrom(_, _)
WritesFrom(code, f) ==
    IF f > Len(code) THEN 0 ELSE CountIn(code[f].body, 54 .. 62) + WritesFrom(code, f + 1)

\* PatternMatcher::analyze_data_flow, the store operations
memory_writes(module) == WritesFrom(module.code, 1)

\* PatternMatcher::is_syscall_like and detect_syscall_patterns
syscall_patterns ==
    {<<"w", "a", "s", "m", "_">>, <<"h", "o", "s", "t", "_">>,
     <<"e", "n", "v", "_">>, <<"s", "y", "s", "_">>, <<"o", "s", "_">>,
     <<"r", "e", "a", "d">>, <<"w", "r", "i", "t", "e">>,
     <<"o", "p", "e", "n">>, <<"c", "l", "o", "s", "e">>,
     <<"s", "o", "c", "k", "e", "t">>,
     <<"c", "o", "n", "n", "e", "c", "t">>, <<"b", "i", "n", "d">>,
     <<"l", "i", "s", "t", "e", "n">>, <<"a", "c", "c", "e", "p", "t">>,
     <<"m", "a", "l", "l", "o", "c">>, <<"f", "r", "e", "e">>,
     <<"m", "m", "a", "p">>, <<"m", "u", "n", "m", "a", "p">>,
     <<"e", "x", "i", "t">>, <<"a", "b", "o", "r", "t">>,
     <<"s", "i", "g", "n", "a", "l">>, <<"f", "o", "r", "k">>,
     <<"e", "x", "e", "c">>}

is_syscall_like(name) == \E pattern \in syscall_patterns : IsInfix(pattern, name)

detect_syscall_patterns(module) ==
    SelectSeq([n \in 1 .. Len(module.exports) |-> module.exports[n].name], is_syscall_like)

MemoryPattern(pattern_type, location, risk_level) ==
    [pattern_type |-> pattern_type, location |-> location, risk_level |-> risk_level]

\* SecurityAnalyzer::contains_memory_grow
contains_memory_grow(bytecode) == \E i \in 1 .. Len(bytecode) : bytecode[i] = 64

RECURSIVE MemoryGrowthFrom(_, _)
MemoryGrowthFrom(code, f) ==
    IF f > Len(code) THEN <<>>
    ELSE (IF contains_memory_grow(code[f].body)
          THEN <<MemoryPattern("MemoryGrowth", f - 1, "Warning")>> ELSE <<>>)
         \o MemoryGrowthFrom(code, f + 1)

RECURSIVE UnalignedIn(_, _)
UnalignedIn(bytecode, i) ==
    IF i >= Len(bytecode) THEN <<>>
    ELSE (IF bytecode[i + 1] \in 40 .. 53 /\ i + 1 < Len(bytecode) /\ bytecode[i + 2] > 2
          THEN <<MemoryPattern("UnalignedAccess", i, "Warning")>> ELSE <<>>)
         \o UnalignedIn(bytecode, i + 1)

RECURSIVE UnalignedFrom(_, _)
\* SecurityAnalyzer::detect_unaligned_access
UnalignedFrom(code, f) ==
    IF f > Len(code) THEN <<>>
    ELSE UnalignedIn(code[f].body, 0) \o UnalignedFrom(code, f + 1)

\* SecurityAnalyzer::contains_bounds_check_pattern
contains_bounds_check_pattern(bytecode) == \E i \in 1 .. Len(bytecode) : bytecode[i] \in 70 .. 81

\* SecurityAnalyzer::analyze_bounds_checking: the accesses, and those with a
\* comparison in the ten bytes before them; the risk is 1 - checks / accesses
analyze_bounds_checking(bytecode) ==
    LET accesses == {i \in 0 .. Len(bytecode) - 1 : bytecode[i + 1] \in 40 .. 62}
        checked == {i \in accesses :
                       i >= 10 /\ contains_bounds_check_pattern(SubSeq(bytecode, i - 10 + 1, i))}
    IN [memory_accesses |-> Cardinality(accesses), bounds_checks |-> Cardinality(checked)]

\* risk_score > tenths / 10, in integers
RiskAbove(b, tenths) ==
    /\ b.memory_accesses # 0
    /\ 10 * (b.memory_accesses - b.bounds_checks) > tenths * b.memory_accesses

RECURSIVE BufferOverflowFrom(_, _)
\* SecurityAnalyzer::detect_buffer_overflow_patterns
BufferOverflowFrom(code, f) ==
    IF f > Len(code) THEN <<>>
    ELSE LET b == analyze_bounds_checking(code[f].body)
         IN (IF RiskAbove(b, 7) THEN <<MemoryPattern("BufferOverflow", f - 1, "Severe")>>
             ELSE IF RiskAbove(b, 4)
             THEN <<MemoryPattern("PotentialBufferOverflow", f - 1, "Warning")>>
             ELSE <<>>)
            \o BufferOverflowFrom(code, f + 1)

\* SecurityAnalyzer::analyze_memory_patterns
analyze_memory_patterns(module) ==
    (IF memory_writes(module) > 1000
     THEN <<MemoryPattern("ExcessiveWrites", 0, "Warning")>> ELSE <<>>)
    \o MemoryGrowthFrom(module.code, 1)
    \o UnalignedFrom(module.code, 1)
    \o BufferOverflowFrom(module.code, 1)

high_risk ==
    {<<"e", "x", "e", "c">>, <<"f", "o", "r", "k">>,
     <<"s", "y", "s", "t", "e", "m">>, <<"o", "p", "e", "n">>,
     <<"w", "r", "i", "t", "e">>, <<"s", "o", "c", "k", "e", "t">>,
     <<"c", "o", "n", "n", "e", "c", "t">>}
medium_risk ==
    {<<"r", "e", "a", "d">>, <<"m", "a", "l", "l", "o", "c">>,
     <<"f", "r", "e", "e">>, <<"m", "m", "a", "p">>,
     <<"s", "i", "g", "n", "a", "l">>}

\* SecurityAnalyzer::assess_syscall_risk
assess_syscall_risk(name) ==
    IF \E risk \in high_risk : IsInfix(risk, name) THEN "Severe"
    ELSE IF \E risk \in medium_risk : IsInfix(risk, name) THEN "Warning"
    ELSE "OK"

\* SecurityAnalyzer::analyze_syscall_functions
analyze_syscall_functions(module) ==
    LET syscall_names == detect_syscall_patterns(module)
    IN [idx \in 1 .. Len(syscall_names) |->
          [name |-> syscall_names[idx], import_index |-> idx - 1,
           risk_level |-> assess_syscall_risk(syscall_names[idx])]]

\* SecurityAnalyzer::analyze
SecurityAnalyze(module) ==
    [memory_patterns |-> analyze_memory_patterns(module),
     control_flow_complexity |-> analyze_control_flow(module),
     suspicious_patterns |-> find_patterns(module),
     syscall_functions |-> analyze_syscall_functions(module)]

AnyRisk(items, level) == \E n \in 1 .. Len(items) : items[n].risk_level = level

\* StaticAnalyzer::calculate_risk_score
calculate_risk_score(security) ==
    LET memory_risk == IF AnyRisk(security.memory_patterns, "Severe") THEN "Severe"
                       ELSE IF AnyRisk(security.memory_patterns, "Warning") THEN "Warning"
                       ELSE "OK"
        execution_risk == IF security.control_flow_complexity > 100 THEN "Severe"
                          ELSE IF security.control_flow_complexity > 50 THEN "Warning"
                          ELSE "OK"
        syscall_risk == IF AnyRisk(security.syscall_functions, "Severe") THEN "Severe"
                        ELSE IF AnyRisk(security.syscall_functions, "Warning") THEN "Warning"
                        ELSE "OK"
        complexity_risk == IF Len(security.suspicious_patterns) > 5 THEN "Severe"
                           ELSE IF Len(security.suspicious_patterns) > 2 THEN "Warning"
                           ELSE "OK"
        score == (CASE memory_risk = "Severe" -> 30 [] memory_risk = "Warning" -> 15 [] OTHER -> 0)
                 + (CASE execution_risk = "Severe" -> 25 [] execution_risk = "Warning" -> 10
                      [] OTHER -> 0)
                 + (CASE syscall_risk = "Severe" -> 25 [] syscall_risk = "Warning" -> 10
                      [] OTHER -> 0)
                 + (CASE complexity_risk = "Severe" -> 20 [] complexity_risk = "Warning" -> 8
                      [] OTHER -> 0)
    IN [overall |-> IF score >= 70 THEN "Severe" ELSE IF score >= 30 THEN "Warning" ELSE "OK",
        memory_risk |-> memory_risk, execution_risk |-> execution_risk,
        syscall_risk |-> syscall_risk, complexity_risk |-> complexity_risk, score |-> score]

Recommendation(category, severity) == [category |-> category, severity |-> severity]

\* StaticAnalyzer::generate_recommendations: the pushes in the order of the code
generate_recommendations(risk) ==
    (IF risk.memory_risk # "OK" THEN <<Recommendation("Memory", risk.memory_risk)>> ELSE <<>>)
    \o (IF risk.execution_risk # "OK"
           THEN <<Recommendation("Execution", risk.execution_risk)>> ELSE <<>>)
    \o (IF risk.overall = "Severe" THEN <<Recommendation("General", "Severe")>> ELSE <<>>)

\* StaticAnalyzer::analyze: Ok with the assessment, the score and the
\* recommendations
StaticAnalyze(module) ==
    LET security_assessment == SecurityAnalyze(module)
        risk_score == calculate_risk_score(security_assessment)
    IN [ok |-> TRUE, security_assessment |-> security_assessment,
        risk_score |-> risk_score,
        recommendations |-> generate_recommendations(risk_score)]

NotAnalyzed == [ok |-> FALSE, security_assessment |-> SecurityAnalyze(EmptyModule),
                risk_score |-> calculate_risk_score(SecurityAnalyze(EmptyModule)),
                recommendations |-> <<>>]

\* how many function bodies an analysed module has at most
MaxCode == 2

InfiniteLoopBody == <<3, 64, 12, 0, 11>>

\* the bodies: the loop alone, after a call, after a load, after calls and an
\* indirect call; a constant, a memory.grow, a br_table, a store after a
\* comparison, an empty body
SaBodyInputs ==
    {InfiniteLoopBody, <<16, 0>> \o InfiniteLoopBody, <<40, 3>> \o InfiniteLoopBody,
     <<16, 0, 17, 0, 16, 1>> \o InfiniteLoopBody,
     <<65, 1>>, <<64, 0>>, <<14, 1, 0, 0, 4>>,
     <<65, 0, 65, 1, 70, 4, 64, 65, 0, 65, 1, 54, 2, 0, 11>>, <<>>}

SaExportInputs ==
    {<<>>,
     <<[name |-> <<"m", "a", "i", "n">>, kind |-> "Function", index |-> 0]>>,
     <<[name |-> <<"f", "o", "p", "e", "n">>, kind |-> "Function", index |-> 0]>>,
     <<[name |-> <<"w", "a", "s", "m", "_", "l", "o", "g">>, kind |-> "Function", index |-> 0],
       [name |-> <<"r", "e", "a", "d", "_", "a", "l", "l">>, kind |-> "Function", index |-> 1]>>}

SaCodeInputs ==
    UNION {[1 .. n -> [locals : {<<>>}, body : SaBodyInputs]] : n \in 0 .. MaxCode}

SaModuleInputs ==
    {[EmptyModule EXCEPT !.exports = exports, !.code = code] :
        exports \in SaExportInputs, code \in SaCodeInputs}

\* StaticAnalyzer::new().analyze(&module)
SaAnalyze ==
    /\ sa_result' = StaticAnalyze(sa_module)
    /\ UNCHANGED <<frame_sa, sa_module>>

SaInit ==
    /\ sa_module = EmptyModule
    /\ sa_result = NotAnalyzed

---------------------------------------------------------------------------
(* debugger/core.rs: DebugContext::resolve_address, the inverse that the
   debugger uses for the addresses of BreakpointManager::calculate_address. *)

\* resolve_address: address >> 16 and address & 0xFFFF (the halves of a u32)
resolve_address(address) ==
    [function_index |-> address \div (2 ^ HalfBits),
     instruction_offset |-> address % (2 ^ HalfBits)]

Place(function_index, instruction_offset) ==
    [function_index |-> function_index, instruction_offset |-> instruction_offset]

\* the u32 values a function index and an instruction offset are drawn from
AddrWordInputs == {0, 1, 2 ^ HalfBits - 1, 2 ^ HalfBits, U32_MAX}
AddrPlaceInputs == {Place(f, o) : f \in AddrWordInputs, o \in AddrWordInputs}

NotResolved == [done |-> FALSE, first |-> 0, second |-> 0, back |-> Place(0, 0)]

\* the addresses of the two places, and the first of them resolved
AddrResolve ==
    /\ ~addr_result.done
    /\ LET first == calculate_address(addr_places[1].function_index,
                                      addr_places[1].instruction_offset)
           second == calculate_address(addr_places[2].function_index,
                                       addr_places[2].instruction_offset)
       IN addr_result' = [done |-> TRUE, first |-> first, second |-> second,
                          back |-> resolve_address(first)]
    /\ UNCHANGED <<frame_addr, addr_places>>

AddrInitWith(places) ==
    /\ addr_places \in places \X places
    /\ addr_result = NotResolved

AddrInit == AddrInitWith({Place(0, 0)})

---------------------------------------------------------------------------
(* sandbox/capabilities.rs: CapabilityPolicy, applied to the CapabilitySet
   capset. *)

CapabilityPolicyOf(default_capabilities, restricted_capabilities) ==
    [default_capabilities |-> default_capabilities,
     restricted_capabilities |-> restricted_capabilities]

\* CapabilityPolicy::new
CapabilityPolicyNew == CapabilityPolicyOf(with_basic, {})

\* restrict and is_restricted
restrict(p, capability) == [p EXCEPT !.restricted_capabilities = @ \cup {capability}]
is_restricted(p, capability) == capability \in p.restricted_capabilities

\* CapabilityPolicy::strict
CapabilityPolicyStrict ==
    restrict(restrict(restrict(
        [CapabilityPolicyNew EXCEPT !.default_capabilities = CapabilitySetClear(@)],
        Cap("NetworkAccess")), Cap("FileSystemRead")), Cap("FileSystemWrite"))

RECURSIVE RevokeAll(_, _)
\* revoke, for each capability of a set in turn
RevokeAll(set, capabilities) ==
    IF capabilities = {} THEN set
    ELSE LET c == CHOOSE x \in capabilities : TRUE
         IN RevokeAll(CapabilitySetRevoke(set, c), capabilities \ {c})

\* apply_to: revoke every restricted capability
apply_to(p, set) == RevokeAll(set, p.restricted_capabilities)

RECURSIVE GrantUnrestricted(_, _, _)
\* grant, for each capability of a set that is not restricted in turn
GrantUnrestricted(p, set, capabilities) ==
    IF capabilities = {} THEN set
    ELSE LET c == CHOOSE x \in capabilities : TRUE
         IN GrantUnrestricted(p, IF is_restricted(p, c) THEN set
                                 ELSE CapabilitySetGrant(set, c),
                              capabilities \ {c})

\* create_capability_set: a new set with the defaults that are not restricted
create_capability_set(p) == GrantUnrestricted(p, CapabilitySetNew, p.default_capabilities)

\* the capabilities restrict is called with, and those granted to the target
RestrictInputs == {Cap("Log"), Cap("NetworkAccess"), ReadSensor("Temperature")}
TargetGrantInputs == {Cap("NetworkAccess"), ReadSensor("Temperature")}

CpolResult(op, set, restricted) == [op |-> op, set |-> set, restricted |-> restricted]
NoCpolResult == CpolResult("none", {}, {})

CpConstruct(ctor) ==
    /\ cap_policy' = (CASE ctor = "new" -> CapabilityPolicyNew
                        [] ctor = "strict" -> CapabilityPolicyStrict)
    /\ UNCHANGED <<frame_cpol, cpol_result>>

CpRestrict(capability) ==
    /\ cap_policy' = restrict(cap_policy, capability)
    /\ UNCHANGED <<frame_cpol, cpol_result>>

CpApplyTo ==
    /\ capset' = apply_to(cap_policy, capset)
    /\ cpol_result' = CpolResult("apply_to", apply_to(cap_policy, capset),
                                 cap_policy.restricted_capabilities)
    /\ UNCHANGED <<overflow_checks, mem_vars, caps_result, sb_vars, ext_but_cpol,
                   cap_policy>>

CpCreateCapabilitySet ==
    /\ cpol_result' = CpolResult("create_capability_set", create_capability_set(cap_policy),
                                 cap_policy.restricted_capabilities)
    /\ UNCHANGED <<frame_cpol, cap_policy>>

CpolInit ==
    /\ cap_policy = CapabilityPolicyNew
    /\ cpol_result = NoCpolResult

---------------------------------------------------------------------------
(* debugger/session.rs: DebugSession (its bookmarks and notes) and
   SessionManager. *)

\* how many bookmarks and how many notes are added to the session
MaxBookmarks == 3

Bookmark(id, function_index) ==
    [id |-> id, name |-> "main", function_index |-> function_index,
     instruction_offset |-> 0, description |-> ""]
Note(id) == [id |-> id, content |-> "", location |-> None]

\* DebugSession::with_module
DebugSessionWithModule(module_name) ==
    [module_name |-> module_name, bookmarks |-> <<>>, notes |-> <<>>]

\* add_bookmark: the id is the number of bookmarks held, plus one (a u32; the
\* sessions here stay far below u32::MAX bookmarks)
add_bookmark(s, function_index) ==
    LET id == Len(s.bookmarks) + 1
    IN [session |-> [s EXCEPT !.bookmarks = Append(@, Bookmark(id, function_index))],
        ret |-> id]

\* remove_bookmark: the first bookmark with the id is taken out
remove_bookmark(s, id) ==
    LET hits == {i \in DOMAIN s.bookmarks : s.bookmarks[i].id = id}
    IN IF hits = {} THEN [session |-> s, ret |-> FALSE]
       ELSE LET pos == CHOOSE i \in hits : \A j \in hits : i <= j
            IN [session |-> [s EXCEPT !.bookmarks =
                                 SubSeq(@, 1, pos - 1) \o SubSeq(@, pos + 1, Len(@))],
                ret |-> TRUE]

\* add_note: the id is the number of notes held, plus one
add_note(s) ==
    LET id == Len(s.notes) + 1
    IN [session |-> [s EXCEPT !.notes = Append(@, Note(id))], ret |-> id]

BookmarkIdInputs == 1 .. (MaxBookmarks + 1)

SessAddBookmark(function_index) ==
    /\ LET r == add_bookmark(session, function_index)
       IN /\ session' = r.session
          /\ session_ids' = [session_ids EXCEPT !.bookmarks = Append(@, r.ret)]
    /\ UNCHANGED frame_sess

SessRemoveBookmark(id) ==
    /\ session' = remove_bookmark(session, id).session
    /\ UNCHANGED <<frame_sess, session_ids>>

SessAddNote ==
    /\ LET r == add_note(session)
       IN /\ session' = r.session
          /\ session_ids' = [session_ids EXCEPT !.notes = Append(@, r.ret)]
    /\ UNCHANGED frame_sess

SessInit ==
    /\ session = DebugSessionWithModule("module")
    /\ session_ids = [bookmarks |-> <<>>, notes |-> <<>>]

\* how many different ids the clock gives to the sessions of a manager
MaxSessionIds == 3

\* the ids Uuid::new_v4().to_string() can give: "session_" and the clock's
\* nanoseconds, which two calls can read the same
SessionIdInputs == 1 .. MaxSessionIds
ModuleNameInputs == {"module1", "module2"}

\* SessionManager::new
SessionManagerNew == [sessions |-> <<>>, current_session |-> None]

\* remove_session that leaves the current pointer alone
remove_session_keeps_current(m, id) ==
    IF id \in DOMAIN m.sessions
    THEN [manager |-> [m EXCEPT !.sessions = MapRemove(@, id)], ret |-> TRUE]
    ELSE [manager |-> m, ret |-> FALSE]

\* create_session: insert the session under its id and make it current
create_session(m, id, module_name) ==
    [manager |-> [m EXCEPT !.sessions = MapInsert(@, id, DebugSessionWithModule(module_name)),
                           !.current_session = Some(id)],
     ret |-> id]

\* switch_session
switch_session(m, id) ==
    IF id \in DOMAIN m.sessions
    THEN [manager |-> [m EXCEPT !.current_session = Some(id)], ret |-> TRUE]
    ELSE [manager |-> m, ret |-> FALSE]

\* remove_session: the current pointer is cleared if it is the id removed
remove_session(m, id) ==
    IF id \in DOMAIN m.sessions
    THEN [manager |-> [m EXCEPT !.sessions = MapRemove(@, id),
                                !.current_session = IF @ = Some(id) THEN None ELSE @],
          ret |-> TRUE]
    ELSE [manager |-> m, ret |-> FALSE]

MgrResult(op, id, ret) == [op |-> op, id |-> id, ret |-> ret]

MgrCreateSession(id, module_name) ==
    /\ manager' = create_session(manager, id, module_name).manager
    /\ mgr_result' = MgrResult("create_session", id, TRUE)
    /\ UNCHANGED frame_mgr

MgrSwitchSession(id) ==
    /\ manager' = switch_session(manager, id).manager
    /\ mgr_result' = MgrResult("switch_session", id, switch_session(manager, id).ret)
    /\ UNCHANGED frame_mgr

MgrRemoveSession(id) ==
    /\ manager' = remove_session(manager, id).manager
    /\ mgr_result' = MgrResult("remove_session", id, remove_session(manager, id).ret)
    /\ UNCHANGED frame_mgr

MgrInit ==
    /\ manager = SessionManagerNew
    /\ mgr_result = MgrResult("none", 0, FALSE)

---------------------------------------------------------------------------
(* sandbox/limits.rs: InstructionCounter.  Its counts are u64. *)

\* InstructionCounter::new
InstructionCounterNew(max_instructions) ==
    [max_instructions |-> max_instructions, current_count |-> 0]

\* increment: add the count, then compare with the limit (the sum of two u64
\* panics with overflow checks and wraps without)
CounterIncrement(checks, c, count) ==
    IF c.current_count + count > U64_MAX /\ checks
    THEN [counter |-> c, ok |-> FALSE, panic |-> TRUE]
    ELSE LET sum == (c.current_count + count) % U64_MOD
         IN [counter |-> [c EXCEPT !.current_count = sum],
             ok |-> ~(sum > c.max_instructions), panic |-> FALSE]

\* remaining and reset
CounterRemaining(c) ==
    IF c.max_instructions >= c.current_count THEN c.max_instructions - c.current_count ELSE 0
CounterReset(c) == [c EXCEPT !.current_count = 0]

\* the limits a counter is made with, and the counts it is incremented by
CounterLimitInputs == {0, 4, U64_MAX}
CounterCountInputs == {0, 1, 2, 3, U64_MAX}

CtrResult(op, count, ok, panic) == [op |-> op, count |-> count, ok |-> ok, panic |-> panic]

CtrIncrement(count) ==
    /\ LET r == CounterIncrement(overflow_checks, counter, count)
       IN /\ counter' = r.counter
          /\ ctr_result' = CtrResult("increment", count, r.ok, r.panic)
    /\ UNCHANGED frame_ctr

CtrReset ==
    /\ counter' = CounterReset(counter)
    /\ ctr_result' = CtrResult("reset", 0, TRUE, FALSE)
    /\ UNCHANGED frame_ctr

CtrInitWith(limits) ==
    /\ counter \in {InstructionCounterNew(m) : m \in limits}
    /\ ctr_result = CtrResult("none", 0, TRUE, FALSE)

CtrInit == CtrInitWith({4})


---------------------------------------------------------------------------
(* sandbox/policy.rs: PolicyManager.  The policies are kept under their    *)
(* names in lower case.                                                    *)

\* str::to_lowercase on the names that are used
to_lowercase(name) ==
    CASE name \in {"Strict", "STRICT", "strict"} -> "strict"
      [] name \in {"Sensor Access", "sensor access"} -> "sensor access"
      [] name \in {"Alert System", "alert system"} -> "alert system"
      [] name \in {"Development", "development"} -> "development"
      [] name \in {"Custom", "custom"} -> "custom"
      [] OTHER -> name

\* the names handed to get_policy, set_default_policy and remove_policy, and
\* the policies handed to register_policy
ManagerNameInputs == {"strict", "Strict", "development", "Custom", "nonexistent"}
RegisterInputs == {PolicyStrict, PolicyDevelopment, PolicyBuilderNew}

\* register_policy: insert under the name in lower case
register_policy(m, a_policy) ==
    [m EXCEPT !.policies = MapInsert(@, to_lowercase(a_policy.name), a_policy)]

\* PolicyManager::new: the default is "strict", the four built-in policies
PolicyManagerNew ==
    register_policy(register_policy(register_policy(register_policy(
        [policies |-> <<>>, default_policy |-> "strict"],
        PolicyStrict), PolicySensorAccess), PolicyAlertSystem), PolicyDevelopment)

\* get_default_policy: policies.get(&default_policy).unwrap()
get_default_policy(m) ==
    IF m.default_policy \in DOMAIN m.policies
    THEN [panic |-> FALSE, name |-> m.policies[m.default_policy].name]
    ELSE [panic |-> TRUE, name |-> ""]

\* set_default_policy: Err for a name that is not stored
set_default_policy(m, name) ==
    IF to_lowercase(name) \notin DOMAIN m.policies
    THEN [manager |-> m, ok |-> FALSE]
    ELSE [manager |-> [m EXCEPT !.default_policy = to_lowercase(name)], ok |-> TRUE]

\* remove_policy: whether a a_policy was stored under the name
remove_policy(m, name) ==
    [manager |-> [m EXCEPT !.policies = MapRemove(@, to_lowercase(name))],
     ret |-> to_lowercase(name) \in DOMAIN m.policies]

PmResult(op, name, ok, panic) == [op |-> op, name |-> name, ok |-> ok, panic |-> panic]

PmRegisterPolicy(a_policy) ==
    /\ policy_manager' = register_policy(policy_manager, a_policy)
    /\ pm_result' = PmResult("register_policy", a_policy.name, TRUE, FALSE)
    /\ UNCHANGED frame_pm

PmGetDefaultPolicy ==
    /\ pm_result' = PmResult("get_default_policy", get_default_policy(policy_manager).name,
                             ~get_default_policy(policy_manager).panic,
                             get_default_policy(policy_manager).panic)
    /\ UNCHANGED <<frame_pm, policy_manager>>

PmSetDefaultPolicy(name) ==
    /\ policy_manager' = set_default_policy(policy_manager, name).manager
    /\ pm_result' = PmResult("set_default_policy", name,
                             set_default_policy(policy_manager, name).ok, FALSE)
    /\ UNCHANGED frame_pm

PmRemovePolicy(name) ==
    /\ policy_manager' = remove_policy(policy_manager, name).manager
    /\ pm_result' = PmResult("remove_policy", name, remove_policy(policy_manager, name).ret, FALSE)
    /\ UNCHANGED frame_pm

PmInit ==
    /\ policy_manager = PolicyManagerNew
    /\ pm_result = PmResult("none", "", TRUE, FALSE)
---------------------------------------------------------------------------

\* the initial state of the parts added last
MoreInit ==
    /\ AddrInit
    /\ CpolInit
    /\ SessInit
    /\ MgrInit
    /\ CtrInit
    /\ PmInit

\* the debugger's part of the initial state
ExtInit ==
    /\ BpInit
    /\ TrInit
    /\ handled = <<>>
    /\ PolicyInit
    /\ DbgInit
    /\ ParserInit
    /\ SaInit
    /\ MoreInit

Init ==
    /\ overflow_checks \in BOOLEAN
    /\ MemInit
    /\ CapsInit
    /\ SbInit
    /\ ExtInit

\* the same with the limits of QuotaLimitsInputs
InitQuota ==
    /\ overflow_checks \in BOOLEAN
    /\ MemInit
    /\ CapsInit
    /\ SbInitWith(QuotaLimitsInputs)
    /\ ExtInit

\* the same with the limits of BudgetLimitsInputs
InitBudget ==
    /\ overflow_checks \in BOOLEAN
    /\ MemInit
    /\ CapsInit
    /\ SbInitWith(BudgetLimitsInputs)
    /\ ExtInit

\* the state in which parse is about to be called with one of ParseInputs
InitParser ==
    /\ overflow_checks \in BOOLEAN
    /\ MemInit
    /\ CapsInit
    /\ SbInit
    /\ BpInit
    /\ TrInit
    /\ handled = <<>>
    /\ PolicyInit
    /\ DbgInit
    /\ parse_input \in ParseInputs
    /\ parse_result = NotParsed
    /\ SaInit
    /\ MoreInit


\* the state in which analyze is about to be called with one of SaModuleInputs
InitAnalyzer ==
    /\ overflow_checks \in BOOLEAN
    /\ MemInit
    /\ CapsInit
    /\ SbInit
    /\ BpInit
    /\ TrInit
    /\ handled = <<>>
    /\ PolicyInit
    /\ DbgInit
    /\ ParserInit
    /\ sa_module \in SaModuleInputs
    /\ sa_result = NotAnalyzed
    /\ MoreInit

\* the state in which the addresses of two of AddrPlaceInputs are about to be computed
InitAddress ==
    /\ overflow_checks \in BOOLEAN
    /\ MemInit
    /\ CapsInit
    /\ SbInit
    /\ BpInit
    /\ TrInit
    /\ handled = <<>>
    /\ PolicyInit
    /\ DbgInit
    /\ ParserInit
    /\ SaInit
    /\ AddrInitWith(AddrPlaceInputs)
    /\ CpolInit
    /\ SessInit
    /\ MgrInit
    /\ CtrInit
    /\ PmInit

\* the state after InstructionCounter::new with one of CounterLimitInputs
InitCounter ==
    /\ overflow_checks \in BOOLEAN
    /\ MemInit
    /\ CapsInit
    /\ SbInit
    /\ BpInit
    /\ TrInit
    /\ handled = <<>>
    /\ PolicyInit
    /\ DbgInit
    /\ ParserInit
    /\ SaInit
    /\ AddrInit
    /\ CpolInit
    /\ SessInit
    /\ MgrInit
    /\ CtrInitWith(CounterLimitInputs)
    /\ PmInit

\* every LinearMemory call
NextMemory ==
    \/ \E min_pages \in PageInputs, max_pages \in MaxPageInputs : MemNew(min_pages, max_pages)
    \/ \E delta \in DeltaInputs : MemGrow(delta)
    \/ \E n \in UintSizes : \E address \in AddrInputs(n) : MemReadUint(address, n)
    \/ \E n \in UintSizes : \E address \in AddrInputs(n), value \in ValueInputs(n) :
          MemWriteUint(address, value, n)
    \/ \E len \in LenInputs : \E address \in AddrInputs(len) : MemReadBytes(address, len)
    \/ \E bytes \in BytesInputs : \E address \in AddrInputs(Len(bytes)) :
          MemWriteBytes(address, bytes)

SpecMemory == Init /\ [][NextMemory]_vars

\* the calls that take &mut self (and new)
NextMemoryMut ==
    \/ \E min_pages \in PageInputs, max_pages \in MaxPageInputs : MemNew(min_pages, max_pages)
    \/ \E delta \in DeltaInputs : MemGrow(delta)
    \/ \E n \in UintSizes : \E address \in AddrInputs(n), value \in ValueInputs(n) :
          MemWriteUint(address, value, n)
    \/ \E bytes \in BytesInputs : \E address \in AddrInputs(Len(bytes)) :
          MemWriteBytes(address, bytes)

SpecMemoryMut == Init /\ [][NextMemoryMut]_vars

\* every CapabilitySet call
NextCaps ==
    \/ \E ctor \in {"new", "with_basic", "with_sensor_access", "with_alert_system"} :
          CapsConstruct(ctor)
    \/ \E capability \in CapInputs : CapsGrant(capability)
    \/ \E capability \in CapInputs : CapsRevoke(capability)
    \/ CapsClear
    \/ \E capability \in Capability : CapsHas(capability)
    \/ \E sensor_type \in SensorType : CapsCanReadSensor(sensor_type)
    \/ \E level \in AlertLevel : CapsCanSendAlert(level)

SpecCaps == Init /\ [][NextCaps]_vars

\* every Sandbox call, and the clock
NextSandbox ==
    \/ Tick
    \/ sb_ops < MaxOps /\ SbCheckLimits
    \/ sb_ops < MaxOps /\ \E capability \in SbCapInputs : SbGrantCapability(capability)
    \/ sb_ops < MaxOps /\ \E capability \in SbCapInputs : SbCheckCapability(capability)
    \/ sb_ops < MaxOps /\ \E call \in SyscallInputs, env \in EnvInputs :
          SbInterceptSyscall(call[1], call[2], env)
    \/ sb_ops < MaxOps /\ \E pages \in PagesInputs : SbUpdateMemoryUsage(pages)
    \/ sb_ops < MaxOps /\ \E count \in InstructionInputs : SbIncrementInstructions(count)

SpecSandbox == Init /\ [][NextSandbox]_vars

\* a long run of one syscall, and the clock
NextQuota ==
    \/ Tick
    \/ sb_ops < MaxCalls /\ \E env \in QuotaEnvInputs : SbInterceptSyscall("wasm_random", <<>>, env)

SpecQuota == InitQuota /\ [][NextQuota]_vars

\* the host calls of a WasmABI, and the capability calls on its sandbox
NextABI ==
    \/ Tick
    \/ sb_ops < MaxOps /\ \E capability \in AbiCapInputs : SbGrantCapability(capability)
    \/ sb_ops < MaxOps /\ \E capability \in AbiCapInputs : SbCheckCapability(capability)
    \/ sb_ops < MaxOps /\ \E call \in HostCallInputs, env \in EnvInputs :
          AbiCallHostFunction(call[1], call[2], env)
    \/ sb_ops < MaxOps /\ \E level \in AlertLevelInputs : HiSendAlert(level)
    \/ sb_ops < MaxOps /\ \E pages \in PagesInputs : SbUpdateMemoryUsage(pages)

SpecABI == Init /\ [][NextABI]_vars


\* every BreakpointManager call
NextBreakpoints ==
    \/ Len(bp_returned) < MaxSets /\ \E place \in PlaceInputs : BpSet(place[1], place[2])
    \/ \E id \in BpIdInputs : BpClear(id)
    \/ \E id \in BpIdInputs : BpEnable(id)
    \/ \E id \in BpIdInputs : BpDisable(id)
    \/ (\A id \in DOMAIN bpm.breakpoints : bpm.breakpoints[id].hit_count < MaxHits)
       /\ \E address \in BpAddressInputs : BpShouldBreak(address)
    \/ BpClearAll

SpecBreakpoints == Init /\ [][NextBreakpoints]_vars

\* the calls of an ExecutionTracer that add to its buffers
NextTracer ==
    \/ TrStart
    \/ TrStop
    \/ Traced < MaxTraces /\ TrInstruction
    \/ Traced < MaxTraces /\ \E name \in TraceNameInputs : TrSyscall(name)
    \/ Traced < MaxTraces /\ \E function_index \in TraceFunctionInputs :
          TrFunctionCall(function_index)

SpecTracer == Init /\ [][NextTracer]_vars

\* calls and returns of functions traced by an ExecutionTracer
NextCalls ==
    \/ TrStart
    \/ TrStop
    \/ Traced < MaxTraces /\ \E function_index \in TraceFunctionInputs :
          TrFunctionCall(function_index)
    \/ TrFunctionReturn

SpecCalls == Init /\ [][NextCalls]_vars

\* calls of handle on one SyscallTrap
NextTrap ==
    \/ Len(handled) < MaxHandles /\ \E call \in HandleInputs, env \in QuotaEnvInputs :
          TrapHandle(call[1], call[2], env)

SpecTrap == Init /\ [][NextTrap]_vars

\* a run that counts its instructions in batches, up to the limit, and checks
\* the limits in between
NextBudget ==
    \/ Tick
    \/ sb_ops < MaxBudgetOps
       /\ \E count \in BatchInputs :
             /\ sandbox.usage.instruction_count + count <= sandbox.limits.max_instructions
             /\ SbIncrementInstructions(count)
    \/ sb_ops < MaxBudgetOps /\ SbCheckLimits

SpecBudget == InitBudget /\ [][NextBudget]_vars

\* the calls that make a policy, and the calls on it
NextPolicy ==
    \/ PolicyCustom
    \/ \E p \in PresetInputs : PolicyPreset(p)
    \/ \E limits \in PolicyLimitsInputs : PbResourceLimits(limits)
    \/ Len(policy.syscall_whitelist) < MaxListLen
       /\ \E syscall \in PolicyNameInputs : PbAllowSyscall(syscall)
    \/ Len(policy.syscall_blacklist) < MaxListLen
       /\ \E syscall \in PolicyNameInputs : PbDenySyscall(syscall)
    \/ PbBuild
    \/ PolicyValidate
    \/ \E syscall \in PolicyNameInputs : PolicyIsSyscallAllowed(syscall)

SpecPolicy == Init /\ [][NextPolicy]_vars

\* every WasmDebugger call that changes it; set_breakpoint and
\* clear_breakpoint are set and clear of its BreakpointManager
NextDebugger ==
    \/ dbg.pc = "idle" /\ DbgEnable
    \/ dbg.pc = "idle" /\ DbgDisable
    \/ dbg.pc = "idle" /\ Len(bp_returned) < MaxDbgCalls
       /\ \E place \in DbgPlaceInputs : BpSet(place[1], place[2])
    \/ dbg.pc = "idle" /\ \E id \in 1 .. MaxDbgCalls : BpClear(id)
    \/ dbg.pc = "idle" /\ dbg_calls < MaxDbgCalls /\ Traced < MaxTraces
       /\ \E mode \in StepModes : DbgStep(mode)
    \/ dbg.pc = "idle" /\ dbg_calls < MaxDbgCalls /\ DbgContinue
    \/ Traced < MaxTraces /\ DbgLoop

SpecDebugger == Init /\ [][NextDebugger]_vars

\* the calls of WasmDebugger with the loop of continue_execution run as far
\* as it goes: a call that has entered its loop takes the next turn of it
NextContinue ==
    \/ dbg.pc = "idle" /\ DbgEnable
    \/ dbg.pc = "idle" /\ DbgDisable
    \/ dbg.pc = "idle" /\ Len(bp_returned) < MaxDbgCalls
       /\ \E place \in DbgPlaceInputs : BpSet(place[1], place[2])
    \/ dbg.pc = "idle" /\ \E id \in 1 .. MaxDbgCalls : BpClear(id)
    \/ dbg.pc = "idle" /\ dbg_calls < MaxDbgCalls /\ DbgContinue
    \/ DbgLoop

SpecContinue == Init /\ [][NextContinue]_vars /\ WF_vars(DbgLoop)

\* step on a debugger whose inspector has been given call frames, its loops
\* run as far as they go
NextStepOut ==
    \/ dbg.pc = "idle" /\ DbgEnable
    \/ dbg.pc = "idle" /\ get_call_depth(dbg.inspector) < MaxDepth
       /\ \E function_index \in TraceFunctionInputs : DbgPushFrame(function_index)
    \/ dbg.pc = "idle" /\ DbgPopFrame
    \/ dbg.pc = "idle" /\ dbg_calls < MaxDbgCalls /\ \E mode \in StepModes : DbgStep(mode)
    \/ DbgLoop

SpecStepOut == Init /\ [][NextStepOut]_vars /\ WF_vars(DbgLoop)

\* WasmParser::parse on each of the inputs
NextParser ==
    \/ parse_result = NotParsed /\ ParserParse

SpecParser == InitParser /\ [][NextParser]_vars


\* StaticAnalyzer::analyze on each of the modules
NextAnalyzer ==
    \/ ~sa_result.ok /\ SaAnalyze

SpecAnalyzer == InitAnalyzer /\ [][NextAnalyzer]_vars


\* the addresses of two places, computed once
NextAddress == AddrResolve

SpecAddress == InitAddress /\ [][NextAddress]_vars

\* a CapabilityPolicy and the CapabilitySet it is applied to
NextCapPolicy ==
    \/ \E ctor \in {"new", "strict"} : CpConstruct(ctor)
    \/ \E capability \in RestrictInputs : CpRestrict(capability)
    \/ \E ctor \in {"new", "with_basic", "with_sensor_access", "with_alert_system"} :
          CapsConstruct(ctor)
    \/ \E capability \in TargetGrantInputs : CapsGrant(capability)
    \/ CpApplyTo
    \/ CpCreateCapabilitySet

SpecCapPolicy == Init /\ [][NextCapPolicy]_vars

\* bookmarks and notes of one DebugSession
NextSession ==
    \/ Len(session_ids.bookmarks) < MaxBookmarks
       /\ \E function_index \in TraceFunctionInputs : SessAddBookmark(function_index)
    \/ \E id \in BookmarkIdInputs : SessRemoveBookmark(id)
    \/ Len(session_ids.notes) < MaxBookmarks /\ SessAddNote

SpecSession == Init /\ [][NextSession]_vars

\* every call that changes a SessionManager
NextManager ==
    \/ \E id \in SessionIdInputs, module_name \in ModuleNameInputs :
          MgrCreateSession(id, module_name)
    \/ \E id \in SessionIdInputs : MgrSwitchSession(id)
    \/ \E id \in SessionIdInputs : MgrRemoveSession(id)

SpecManager == Init /\ [][NextManager]_vars

\* the calls that change an InstructionCounter
NextCounter ==
    \/ \E count \in CounterCountInputs : CtrIncrement(count)
    \/ CtrReset

SpecCounter == InitCounter /\ [][NextCounter]_vars

\* every call on a PolicyManager
NextPolicyManager ==
    \/ \E a_policy \in RegisterInputs : PmRegisterPolicy(a_policy)
    \/ PmGetDefaultPolicy
    \/ \E name \in ManagerNameInputs : PmSetDefaultPolicy(name)
    \/ \E name \in ManagerNameInputs : PmRemovePolicy(name)

SpecPolicyManager == Init /\ [][NextPolicyManager]_vars
---------------------------------------------------------------------------
(* Properties of LinearMemory *)

\* what C6 says a step accessing n bytes at address a returns and leaves
C6_AccessOutcome(a, n) ==
    IF a + n <= mem.current_pages * PAGE_SIZE
    THEN mem_result'.ok
    ELSE /\ ~mem_result'.ok
         /\ mem_result'.err = MemoryOutOfBounds(a, n)
         /\ mem' = mem

\* C6: every typed read or write and read_bytes / write_bytes of s bytes at
\* address a succeeds iff a + s <= current_pages * PAGE_SIZE (a + s not
\* wrapped), and otherwise returns MemoryOutOfBounds{a, s} and leaves the
\* memory unchanged.
C6_AccessIffInBounds ==
    [][ /\ \A n \in UintSizes : \A a \in U32 :
             /\ MemReadUint(a, n) => C6_AccessOutcome(a, n)
             /\ \A v \in ValueInputs(n) : MemWriteUint(a, v, n) => C6_AccessOutcome(a, n)
        /\ \A len \in LenInputs : \A a \in U32 :
             MemReadBytes(a, len) => C6_AccessOutcome(a, len)
        /\ \A bytes \in BytesInputs : \A a \in U32 :
             MemWriteBytes(a, bytes) => C6_AccessOutcome(a, Len(bytes)) ]_vars

\* C7: a grow(delta) that returns Ok(p0) returns the page count before the
\* call, leaves size() = p0 + delta (unwrapped), keeps every byte below the
\* old size and zeroes every byte of the added range.
C7_GrowAddsDelta ==
    [][ \A delta \in DeltaInputs :
          (MemGrow(delta) /\ mem_result'.ok) =>
             /\ mem_result'.val = mem.current_pages
             /\ MemorySize(mem') = mem_result'.val + delta
             /\ Len(mem'.data) >= Len(mem.data)
             /\ \A i \in 1 .. Len(mem.data) : mem'.data[i] = mem.data[i]
             /\ \A i \in (Len(mem.data) + 1) .. Len(mem'.data) : mem'.data[i] = 0 ]_vars

\* C8: a grow(delta) that does not return Ok leaves the page count and every
\* byte of the memory as they were.
C8_FailedGrowChangesNothing ==
    [][ \A delta \in DeltaInputs :
          (MemGrow(delta) /\ ~mem_result'.ok) => mem' = mem ]_vars

\* min = 1, max = 2, written to, grown once: the second grow(1) has failed
C8_Witness ==
    /\ mem.live /\ mem.min_pages = 1 /\ mem.max_pages = Some(2)
    /\ mem_result.op = "grow" /\ ~mem_result.ok /\ mem_result.err = Runtime("Memory grow failed")
    /\ MemorySize(mem) = 2
    /\ mem_writes > 0 /\ \E i \in 1 .. Len(mem.data) : mem.data[i] # 0

\* C9: in every state of a memory that new returned, min_pages <=
\* current_pages, current_pages <= max_pages when a maximum is set,
\* current_pages <= MAX_PAGES, and the buffer holds current_pages * PAGE_SIZE
\* bytes.
C9_PageInvariants ==
    mem.live =>
        /\ mem.min_pages <= mem.current_pages
        /\ mem.max_pages.some => mem.current_pages <= mem.max_pages.v
        /\ mem.current_pages <= MAX_PAGES
        /\ Len(mem.data) = mem.current_pages * PAGE_SIZE

\* how many entities of a kind the module has to export
KindCount(module, kind) ==
    CASE kind = "Function" -> Len(module.functions)
      [] kind = "Memory" -> IF module.memory.some THEN 1 ELSE 0
      [] OTHER -> 0

\* C20: in a module that parse returns, the type_idx of every function is
\* below the number of types, and the index of every export is below the
\* number of entities of its kind.
C20_AcceptedModuleIndicesValid ==
    parse_result.ok =>
       LET module == parse_result.module
       IN /\ \A i \in 1 .. Len(module.functions) :
                module.functions[i].type_idx < Len(module.types)
          /\ \A i \in 1 .. Len(module.exports) :
                module.exports[i].index < KindCount(module, module.exports[i].kind)


---------------------------------------------------------------------------
\* C22: when a function body of the analysed module contains the bytes
\* 03 40 0C 00 0B, analyze reports a suspicious pattern named InfiniteLoop
\* and an overall risk of Warning or Severe.
C22_InfiniteLoopIsFlagged ==
    (sa_result.ok /\ \E f \in 1 .. Len(sa_module.code) :
                        IsInfix(InfiniteLoopBody, sa_module.code[f].body))
    => /\ \E n \in 1 .. Len(sa_result.security_assessment.suspicious_patterns) :
            sa_result.security_assessment.suspicious_patterns[n].pattern_name = "InfiniteLoop"
       /\ sa_result.risk_score.overall \in {"Warning", "Severe"}
---------------------------------------------------------------------------
(* Properties of Sandbox, SyscallTrap and WasmABI *)

\* no usage figure above its limit
C1_LimitsKept(usage, limits) ==
    /\ usage.memory_pages <= limits.max_memory_pages
    /\ usage.cpu_time <= limits.max_cpu_time
    /\ usage.syscall_count <= limits.max_syscalls
    /\ usage.instruction_count <= limits.max_instructions

\* some usage figure above its limit, the time elapsed counting as CPU time
C1_Exceeded(usage, limits, elapsed) ==
    \/ usage.memory_pages > limits.max_memory_pages
    \/ elapsed > limits.max_cpu_time
    \/ usage.syscall_count > limits.max_syscalls
    \/ usage.instruction_count > limits.max_instructions

\* C1: intercept_syscall(n, args) returns Ok only if n is in the trap's allow
\* set and the limit check it made, after counting the call, found every
\* limit kept; and a call made while a limit is exceeded, or with a name that
\* is not allowed, does not return Ok.
C1_OkOnlyIfAllowedAndWithinLimits ==
    [][ (sb_result'.op = "intercept_syscall" /\ sb_ops' = sb_ops + 1) =>
          /\ sb_result'.ok =>
                /\ is_allowed(sandbox.syscall_trap, sb_result'.name)
                /\ C1_LimitsKept(sandbox'.usage, sandbox'.limits)
          /\ ( \/ C1_Exceeded(sandbox.usage, sandbox.limits, now)
               \/ ~is_allowed(sandbox.syscall_trap, sb_result'.name) )
             => ~sb_result'.ok ]_vars

\* C2: every Sandbox call that returns an error has appended exactly one
\* SecurityViolation and every call that returns Ok none: the violation log
\* is as long as the number of errors returned.
C2_ViolationPerError == Len(get_violations(sandbox)) = sb_errors

\* what C3 says a failed capability check returns and logs
C3_Logged ==
    /\ sb_result'.err = Runtime("Capability violation")
    /\ Len(sandbox'.violations) = Len(sandbox.violations) + 1
    /\ sandbox'.violations[Len(sandbox'.violations)].violation_type = "CapabilityViolation"

\* C3: a capability check that fails returns Runtime("Capability violation")
\* and logs exactly one CapabilityViolation, in check_capability and in
\* call_host_function("wasm_read_sensor", [0]) without a ReadSensor capability.
C3_FailedCheckLogsViolation ==
    [][ /\ \A capability \in AbiCapInputs :
             (SbCheckCapability(capability) /\ ~sb_result'.ok) => C3_Logged
        /\ \A env \in EnvInputs :
             ( /\ AbiCallHostFunction("wasm_read_sensor", <<0>>, env)
               /\ \A x \in SensorType : ReadSensor(x) \notin sandbox.capabilities )
             => C3_Logged ]_vars

\* C4: in a fresh SyscallTrap the five wasm_ syscalls are allowed, and open,
\* read, write, socket, connect, exec and fork have a handler but are not
\* allowed.
C4_FreshTrapAllowSet ==
    sb_ops = 0 =>
        /\ \A n \in {"wasm_log", "wasm_get_time", "wasm_random", "wasm_read_sensor",
                     "wasm_send_alert"} : is_allowed(sandbox.syscall_trap, n)
        /\ \A n \in {"open", "read", "write", "socket", "connect", "exec", "fork"} :
              /\ n \in DOMAIN sandbox.syscall_trap.syscall_handlers
              /\ ~is_allowed(sandbox.syscall_trap, n)

\* C5: intercept_syscall with open, read, write, socket, connect, exec, fork,
\* system, unlink or chmod never returns Ok, whatever was called before.
C5_DangerousSyscallsFail ==
    ( /\ sb_result.op = "intercept_syscall"
      /\ sb_result.name \in {"open", "read", "write", "socket", "connect", "exec", "fork",
                             "system", "unlink", "chmod"} )
    => ~sb_result.ok

\* open was refused by its handler after a grant and an allowed syscall
C5_Witness ==
    /\ sb_result.op = "intercept_syscall" /\ sb_result.name = "open"
    /\ ~sb_result.ok /\ sb_result.err = Runtime("Syscall denied by policy")
    /\ sandbox.capabilities # {}
    /\ sandbox.usage.syscall_count = 1

---------------------------------------------------------------------------
(* Properties of CapabilitySet *)

\* C10: a set that holds ReadSensor(Any) has ReadSensor(x) for every sensor
\* type x, and one that holds SendAlert(Any) has SendAlert(x) for every level
\* x, whatever else was granted or revoked.
C10_WildcardCoversAll ==
    /\ ReadSensor("Any") \in capset =>
          /\ \A x \in SensorType : CapabilitySetHas(capset, ReadSensor(x))
          /\ (caps_result.op = "has" /\ caps_result.cap.tag = "ReadSensor") => caps_result.val
    /\ SendAlert("Any") \in capset =>
          /\ \A x \in AlertLevel : CapabilitySetHas(capset, SendAlert(x))
          /\ (caps_result.op = "has" /\ caps_result.cap.tag = "SendAlert") => caps_result.val

\* has(ReadSensor(Pressure)) was asked of a set that holds the wildcard and
\* another grant, and not ReadSensor(Pressure) itself
C10_Witness ==
    /\ ReadSensor("Any") \in capset /\ ReadSensor("Pressure") \notin capset
    /\ SendAlert("Info") \in capset /\ Cap("Log") \notin capset
    /\ caps_result = CapsResult("has", ReadSensor("Pressure"), TRUE)


\* C11: has(c) and check_capability(c) succeed only if c itself is in the
\* set, or c is a ReadSensor and ReadSensor(Any) is in the set, or c is a
\* SendAlert and SendAlert(Any) is in the set; a grant of one sensor type or
\* alert level does not answer for another.
C11_NoCheckWithoutGrant ==
    /\ \A c \in Capability :
          ( \/ CapabilitySetHas(capset, c)
            \/ check_capability([capabilities |-> capset], c).ok )
          => \/ c \in capset
             \/ c.tag = "ReadSensor" /\ ReadSensor("Any") \in capset
             \/ c.tag = "SendAlert" /\ SendAlert("Any") \in capset
    /\ (caps_result.op = "has" /\ caps_result.val)
          => \/ caps_result.cap \in capset
             \/ caps_result.cap.tag = "ReadSensor" /\ ReadSensor("Any") \in capset
             \/ caps_result.cap.tag = "SendAlert" /\ SendAlert("Any") \in capset

\* has(ReadSensor(Humidity)) was refused by a set that holds
\* ReadSensor(Temperature) and SendAlert(Info) and neither wildcard
C11_Witness ==
    /\ ReadSensor("Temperature") \in capset /\ SendAlert("Info") \in capset
    /\ ReadSensor("Any") \notin capset /\ SendAlert("Any") \notin capset
    /\ caps_result = CapsResult("has", ReadSensor("Humidity"), FALSE)

\* C15: when handle returns, the syscall log holds at most 1000 entries; an
\* append that takes it above 1000 drops the 500 oldest entries, any other
\* append drops none; the log is the most recent calls handled, in call order.
C15_SyscallLogBounded ==
    [][ handled' # handled =>
          LET log == sandbox.syscall_trap.syscall_log
              after == sandbox'.syscall_trap.syscall_log
              pushed == Append(log, handled'[Len(handled')])
          IN /\ Len(after) <= SyscallLogMax
             /\ after = IF Len(pushed) > SyscallLogMax
                        THEN SubSeq(pushed, SyscallLogDrain + 1, Len(pushed))
                        ELSE pushed
             /\ Len(after) <= Len(handled')
             /\ after = SubSeq(handled', Len(handled') - Len(after) + 1, Len(handled'))
      ]_vars

\* the log was full, one more call was handled and the oldest entries are
\* gone
C15_Witness ==
    /\ Len(handled) = SyscallLogMax + 1
    /\ Len(sandbox.syscall_trap.syscall_log) = SyscallLogMax + 1 - SyscallLogDrain
    /\ handled[SyscallLogDrain + 1] # handled[SyscallLogDrain + 2]
    /\ sandbox.syscall_trap.syscall_log[1] = handled[SyscallLogDrain + 1]

\* C16: once the instructions counted add up to the instruction limit,
\* check_limits returns an error.
C16_FullBudgetHitsLimit ==
    ( /\ sb_result.op = "check_limits"
      /\ sandbox.usage.instruction_count >= sandbox.limits.max_instructions )
    => ~sb_result.ok

\* the names of a Vec
Names(vec) == {vec[i] : i \in 1 .. Len(vec)}

\* what the policy must not be: a name in both lists, no memory, no CPU time
Invalid(p) ==
    \/ Names(p.syscall_whitelist) \cap Names(p.syscall_blacklist) # {}
    \/ p.resource_limits.max_memory_pages = 0
    \/ p.resource_limits.max_cpu_time = 0

\* C17: validate returns an error exactly when a name is in the whitelist and
\* in the blacklist, or max_memory_pages is 0, or max_cpu_time is zero; a
\* policy that build returns has disjoint lists and limits that are not zero.
C17_ValidateIffConflictOrZero ==
    /\ validate(policy).ok <=> ~Invalid(policy)
    /\ policy_result.op = "validate" => (policy_result.ok <=> ~Invalid(policy))
    /\ (policy_result.op = "build" /\ policy_result.ok) =>
          /\ Names(policy.syscall_whitelist) \cap Names(policy.syscall_blacklist) = {}
          /\ policy.resource_limits.max_memory_pages # 0
          /\ policy.resource_limits.max_cpu_time # 0

\* a builder given a CPU time of zero, and lists that do not meet, fails to
\* build
C17_Witness ==
    /\ policy_result.op = "build"
    /\ ~policy_result.ok
    /\ policy.syscall_whitelist = <<"wasm_log">>
    /\ policy.syscall_blacklist = <<"open">>
    /\ policy.resource_limits.max_memory_pages # 0
    /\ policy.resource_limits.max_cpu_time = 0

\* C18: is_syscall_allowed(name) is true exactly when the name is not in the
\* blacklist and the whitelist is empty or holds the name; a blacklisted name
\* is not allowed even if whitelisted; strict allows wasm_log and not
\* wasm_read_sensor.
C18_AllowedIffNotBlackAndWhite ==
    /\ \A syscall \in PolicyNameInputs \cup HostSyscalls \cup DeniedSyscalls :
          is_syscall_allowed(policy, syscall) <=>
             /\ syscall \notin Names(policy.syscall_blacklist)
             /\ \/ policy.syscall_whitelist = <<>>
                \/ syscall \in Names(policy.syscall_whitelist)
    /\ policy_result.op = "is_syscall_allowed" =>
          /\ policy_result.allowed <=>
                /\ policy_result.name \notin Names(policy.syscall_blacklist)
                /\ \/ policy.syscall_whitelist = <<>>
                   \/ policy_result.name \in Names(policy.syscall_whitelist)
          /\ policy_result.name \in Names(policy.syscall_blacklist) => ~policy_result.allowed
    /\ is_syscall_allowed(PolicyStrict, "wasm_log")
    /\ ~is_syscall_allowed(PolicyStrict, "wasm_read_sensor")

\* a name that is whitelisted and blacklisted was asked for and refused
C18_Witness ==
    /\ policy_result.op = "is_syscall_allowed"
    /\ policy_result.name \in Names(policy.syscall_whitelist)
    /\ policy_result.name \in Names(policy.syscall_blacklist)
    /\ ~policy_result.allowed


---------------------------------------------------------------------------
\* C21: a send_alert with a level above 3, on the HostInterface or through
\* wasm_send_alert, returns an error and hands no alert to the handlers: the
\* list of host effects is what it was before the call.
C21_InvalidAlertLevelRejected ==
    [][(/\ sb_ops' = sb_ops + 1
        /\ sb_result'.name \in {"send_alert", "wasm_send_alert"}
        /\ Len(sb_result'.args) >= 1
        /\ sb_result'.args[1] > 3)
       => (~sb_result'.ok /\ host_effects' = host_effects)]_vars

\* an alert of level 3 went to the handlers, then one of a level above 3 was refused
C21_Witness ==
    /\ sb_result.op = "send_alert"
    /\ sb_result.args[1] > 3
    /\ ~sb_result.ok
    /\ Len(host_effects) = 1
    /\ host_effects[1].kind = "alert"

---------------------------------------------------------------------------
\* the four comparisons of the limits, on a usage and the time elapsed
WithinLimits(usage, limits, elapsed) ==
    /\ usage.memory_pages <= limits.max_memory_pages
    /\ elapsed <= limits.max_cpu_time
    /\ usage.syscall_count <= limits.max_syscalls
    /\ usage.instruction_count <= limits.max_instructions

\* C23: one intercept_syscall checks the limits before it dispatches and logs
\* after the handler returned.  When the limit check or the allow-set check
\* fails the call returns an error and the syscall log is what it was; else
\* exactly one entry is appended to the log, holding the name, the arguments
\* and the result the call returns (the oldest entries leave a log grown
\* beyond its maximum).
C23_InterceptSyscallOrder ==
    [][(sb_ops' = sb_ops + 1 /\ sb_result'.op = "intercept_syscall")
       => LET counted == increment_syscall(overflow_checks, sandbox.usage)
              log == sandbox.syscall_trap.syscall_log
              entry == SyscallEntry(sb_result'.name, sb_result'.args,
                                    [ok |-> sb_result'.ok, val |-> sb_result'.val,
                                     err |-> sb_result'.err])
              pushed == Append(log, entry)
          IN IF \/ counted.panic
                \/ ~WithinLimits(counted.usage, sandbox.limits, now)
                \/ sb_result'.name \notin sandbox.syscall_trap.allowed_syscalls
             THEN ~sb_result'.ok /\ sandbox'.syscall_trap.syscall_log = log
             ELSE sandbox'.syscall_trap.syscall_log =
                     IF Len(pushed) > SyscallLogMax
                     THEN SubSeq(pushed, SyscallLogDrain + 1, Len(pushed))
                     ELSE pushed]_vars

\* a call was dispatched and logged, and the next one, over the quota, was
\* refused and left the log alone
C23_Witness ==
    /\ sb_result.op = "intercept_syscall"
    /\ ~sb_result.ok
    /\ sb_result.err.msg = "Syscall quota exceeded"
    /\ Len(sandbox.syscall_trap.syscall_log) = 1
    /\ sandbox.syscall_trap.syscall_log[1].result.ok

---------------------------------------------------------------------------
\* C24: a host call through call_host_function is checked against the limits
\* before its effect and is counted: when the sandbox is over one of its
\* limits the call fails and the host effects are what they were, and every
\* call that returns Ok has added one to syscall_count.
C24_HostCallChecksLimits ==
    [][(sb_ops' = sb_ops + 1 /\ sb_result'.op = "call_host_function")
       => /\ ~WithinLimits(sandbox.usage, sandbox.limits, now)
                => (~sb_result'.ok /\ host_effects' = host_effects)
          /\ sb_result'.ok
                => sandbox'.usage.syscall_count = (sandbox.usage.syscall_count + 1) % U32_MOD]_vars

---------------------------------------------------------------------------
\* the capability a host function asks for with these arguments, when the
\* arguments name one
RequiredCapability(name, args) ==
    CASE name = "wasm_log" -> {Cap("Log")}
      [] name = "wasm_get_time" -> {Cap("GetTime")}
      [] name = "wasm_random" -> {Cap("Random")}
      [] name = "wasm_read_sensor" ->
            IF Len(args) >= 1 /\ args[1] \in 0 .. 5
            THEN {ReadSensor(<<"Temperature", "Humidity", "Pressure", "Motion", "Light",
                               "Sound">>[args[1] + 1])}
            ELSE {}
      [] name = "wasm_send_alert" ->
            IF Len(args) >= 3 /\ args[1] \in 0 .. 3
            THEN {SendAlert(<<"Info", "Warning", "Error", "Critical">>[args[1] + 1])}
            ELSE {}
      [] OTHER -> {}

\* the set holds the capability, itself or through the Any of its variant
Holds(set, capability) ==
    \/ capability \in set
    \/ capability.tag = "ReadSensor" /\ ReadSensor("Any") \in set
    \/ capability.tag = "SendAlert" /\ SendAlert("Any") \in set

\* C25: a host function called while the sandbox does not hold the capability
\* it requires returns an error, and no log sink, alert sink or sensor, time
\* or random read of the HostInterface is invoked: the host effects are what
\* they were.
C25_NoEffectWithoutCapability ==
    [][(/\ sb_ops' = sb_ops + 1
        /\ sb_result'.op = "call_host_function"
        /\ \E capability \in RequiredCapability(sb_result'.name, sb_result'.args) :
              ~Holds(sandbox.capabilities, capability))
       => (~sb_result'.ok /\ host_effects' = host_effects)]_vars

\* the sandbox holds ReadSensor(Temperature) alone and a read of the humidity
\* sensor was refused
C25_Witness ==
    /\ sb_result.op = "call_host_function"
    /\ sb_result.name = "wasm_read_sensor"
    /\ sb_result.args = <<1>>
    /\ sandbox.capabilities = {ReadSensor("Temperature")}
    /\ sb_result.err.msg = "Capability violation"
    /\ host_effects = <<>>

---------------------------------------------------------------------------
\* the type of the first limit exceeded, in the order memory, CPU time,
\* syscalls, instructions
FirstExceeded(usage, limits, elapsed) ==
    IF usage.memory_pages > limits.max_memory_pages THEN "MemoryLimit"
    ELSE IF elapsed > limits.max_cpu_time THEN "CpuTimeLimit"
    ELSE IF usage.syscall_count > limits.max_syscalls THEN "SyscallQuota"
    ELSE "InstructionLimit"

---------------------------------------------------------------------------
\* a check of the sandbox has failed for one of the resources that only grow
Exhausted(sb) ==
    \E n \in 1 .. Len(sb.violations) :
        sb.violations[n].violation_type \in {"CpuTimeLimit", "SyscallQuota", "InstructionLimit"}

\* C27: the instruction count, the syscall count and the time elapsed never
\* decrease, and once a limit check has failed for the instruction limit, the
\* syscall quota or the CPU time, every later check_limits and
\* intercept_syscall fails and leaves the syscall log alone (no handler ran).
C27_ExhaustionIsPermanent ==
    [][/\ sandbox'.usage.instruction_count >= sandbox.usage.instruction_count
       /\ sandbox'.usage.syscall_count >= sandbox.usage.syscall_count
       /\ now' >= now
       /\ (/\ Exhausted(sandbox)
           /\ sb_ops' = sb_ops + 1
           /\ sb_result'.op \in {"check_limits", "intercept_syscall"})
          => /\ ~sb_result'.ok
             /\ sandbox'.syscall_trap.syscall_log = sandbox.syscall_trap.syscall_log]_vars
---------------------------------------------------------------------------
(* Properties of the debugger *)

\* the address a breakpoint was set at
AddressOf(bp) == calculate_address(bp.function_index, bp.instruction_offset)

\* the breakpoints of m that were set at the address
BreakpointsAt(m, address) ==
    {id \in DOMAIN m.breakpoints : AddressOf(m.breakpoints[id]) = address}

\* C12: set returns an id that no earlier set returned, also after clear and
\* clear_all; a clear(id) of a breakpoint that exists takes exactly one entry
\* out of the id map and exactly one out of the address map, and after it
\* should_break at the breakpoint's address returns false, whatever was set
\* and cleared before, several breakpoints at one place included.
C12_SetClearContract ==
    [][ /\ \A i, j \in 1 .. Len(bp_returned') : i # j => bp_returned'[i] # bp_returned'[j]
        /\ (bp_result'.op = "clear" /\ bp_result'.ret) =>
              /\ bp_result'.arg \in DOMAIN bpm.breakpoints
              /\ Cardinality(DOMAIN bpm'.breakpoints) = Cardinality(DOMAIN bpm.breakpoints) - 1
              /\ Cardinality(DOMAIN bpm'.address_map) = Cardinality(DOMAIN bpm.address_map) - 1
              /\ ~ShouldBreak(overflow_checks, bpm',
                              AddressOf(bpm.breakpoints[bp_result'.arg])).ret
      ]_vars

\* C13: a breakpoint just set is enabled with hit_count 0; should_break(addr)
\* returns true exactly when an enabled breakpoint is set at addr, and then
\* counts one hit on one such breakpoint and none elsewhere; otherwise it
\* returns false and no hit_count changes; a breakpoint enabled again breaks
\* again.
C13_ShouldBreakContract ==
    [][ /\ (bp_result'.op = "set" /\ ~bp_result'.panic) =>
              LET id == bp_returned'[Len(bp_returned')]
              IN /\ id \in DOMAIN bpm'.breakpoints
                 /\ bpm'.breakpoints[id].enabled
                 /\ bpm'.breakpoints[id].hit_count = 0
        /\ (bp_result'.op = "should_break" /\ ~bp_result'.panic) =>
              LET enabled_here == {id \in BreakpointsAt(bpm, bp_result'.arg) :
                                      bpm.breakpoints[id].enabled}
              IN /\ bp_result'.ret <=> (enabled_here # {})
                 /\ DOMAIN bpm'.breakpoints = DOMAIN bpm.breakpoints
                 /\ bp_result'.ret =>
                       \E hit \in enabled_here :
                          /\ bpm'.breakpoints[hit].hit_count =
                                bpm.breakpoints[hit].hit_count + 1
                          /\ \A id \in DOMAIN bpm.breakpoints \ {hit} :
                                bpm'.breakpoints[id] = bpm.breakpoints[id]
                 /\ ~bp_result'.ret => bpm' = bpm
        /\ (bp_result'.op = "enable" /\ bp_result'.ret) =>
              ShouldBreak(overflow_checks, bpm',
                          AddressOf(bpm'.breakpoints[bp_result'.arg])).ret
      ]_vars

\* the last n entries of a sequence
LastOf(seq, n) == SubSeq(seq, Len(seq) - n + 1, Len(seq))

\* the buffer holds at most capacity entries, and they are the last ones
\* appended, in order
RingOf(buffer, history, capacity) ==
    /\ Len(buffer) <= capacity
    /\ Len(buffer) <= Len(history)
    /\ buffer = LastOf(history, Len(buffer))
    /\ Len(history) <= capacity => buffer = history
    /\ Len(history) >= capacity => Len(buffer) = capacity

\* C14: whatever was traced on an enabled tracer, the instruction buffer holds
\* at most 10,000 entries and the syscall and function-call buffers at most
\* 1,000 each; a full buffer drops its oldest entry for a new one and keeps
\* the others in order.
C14_TraceBuffersBounded ==
    /\ RingOf(tracer.trace.instructions, tr_history.instructions, TraceMaxEntries)
    /\ RingOf(tracer.trace.syscalls, tr_history.syscalls, TraceSmallCapacity)
    /\ RingOf(tracer.trace.function_calls, tr_history.function_calls, TraceSmallCapacity)

\* C19: step, in each of its modes, and continue_execution on a disabled
\* debugger return Runtime("Debugger not enabled") and change nothing: the
\* trace, the breakpoints with their hit counts and the inspector stay as
\* they are.
C19_DisabledStepChangesNothing ==
    [][ (dbg_calls' = dbg_calls + 1 /\ ~dbg.enabled) =>
          /\ dbg_result'.op \in {"step", "continue_execution"}
          /\ ~dbg_result'.ok
          /\ dbg_result'.err = "Debugger not enabled"
          /\ tracer' = tracer
          /\ bpm' = bpm
          /\ dbg' = dbg
      ]_vars

\* a debugger that has traced an instruction and holds a breakpoint at its
\* instruction pointer was disabled, and a step was refused
C19_Witness ==
    /\ ~dbg.enabled
    /\ dbg_result.op = "step"
    /\ dbg_result.err = "Debugger not enabled"
    /\ Len(tracer.trace.instructions) > 0
    /\ calculate_address(0, 0) \in DOMAIN bpm.address_map


---------------------------------------------------------------------------
\* C28: continue_execution on an enabled debugger terminates: a call that
\* has entered its loop eventually returns (a panic is no return), whether
\* or not an enabled breakpoint lies on its way.
C28_ContinueTerminates ==
    (dbg.pc = "continue") ~> (dbg.pc = "idle" /\ dbg_result.err # "panic")

C30_ReturnStampsItsCall ==
    [][ (/\ tracer.enabled
         /\ tracer.call_stack # <<>>
         /\ tracer'.call_stack = SubSeq(tracer.call_stack, 1, Len(tracer.call_stack) - 1))
        => LET call == tracer.call_stack[Len(tracer.call_stack)]
               calls == tracer.trace.function_calls
           IN \A i \in DOMAIN calls :
                  calls[i].timestamp = call.timestamp
                      => /\ i \in DOMAIN tracer'.trace.function_calls
                         /\ tracer'.trace.function_calls[i].duration.some
      ]_vars

\* C31: the two indices of the BreakpointManager agree: they hold the same
\* number of entries, every breakpoint of the id map is found in the address
\* map under its address with its own id, and every id in the address map is
\* a key of the id map.
C31_IndicesConsistent ==
    /\ Cardinality(DOMAIN bpm.breakpoints) = Cardinality(DOMAIN bpm.address_map)
    /\ \A id \in DOMAIN bpm.breakpoints :
          /\ AddressOf(bpm.breakpoints[id]) \in DOMAIN bpm.address_map
          /\ bpm.address_map[AddressOf(bpm.breakpoints[id])] = id
    /\ \A address \in DOMAIN bpm.address_map :
          bpm.address_map[address] \in DOMAIN bpm.breakpoints
---------------------------------------------------------------------------
(* Properties of the address encoding, the capability policy, the debug
   sessions, the instruction counter and the policy manager *)

\* C32: the address of a place is a bijection: two different places have
\* different addresses, and resolve_address gives back the place an address
\* was computed from.
C32_AddressIsBijection ==
    addr_result.done =>
        /\ addr_places[1] # addr_places[2] => addr_result.first # addr_result.second
        /\ addr_result.back = addr_places[1]

\* C33: after apply_to the target set has no restricted capability, wildcard
\* or not, and the set create_capability_set returns has none either.
C33_RestrictedNotUsable ==
    cpol_result.op \in {"apply_to", "create_capability_set"} =>
        \A c \in cpol_result.restricted : ~CapabilitySetHas(cpol_result.set, c)

Increasing(ids) == \A i, j \in DOMAIN ids : i < j => ids[i] < ids[j]
DistinctIds(items) == \A i, j \in DOMAIN items : i # j => items[i].id # items[j].id

\* C34: the ids add_bookmark returns grow, each above all earlier ones, and
\* so do those of add_note; no two bookmarks and no two notes of the session
\* share an id.
C34_BookmarkIdsUnique ==
    /\ Increasing(session_ids.bookmarks)
    /\ Increasing(session_ids.notes)
    /\ DistinctIds(session.bookmarks)
    /\ DistinctIds(session.notes)

\* C35: the current pointer of a SessionManager is unset or the id of a
\* stored session; create_session makes its session current, remove_session
\* of the current session clears the pointer and of another one leaves it,
\* and switch_session to an unknown id returns false and leaves it.
C35_CurrentIsStored ==
    [][ /\ manager'.current_session.some =>
              manager'.current_session.v \in DOMAIN manager'.sessions
        /\ (manager' # manager \/ mgr_result' # mgr_result) =>
              /\ mgr_result'.op = "create_session" =>
                    /\ manager'.current_session = Some(mgr_result'.id)
                    /\ mgr_result'.id \in DOMAIN manager'.sessions
              /\ (mgr_result'.op = "remove_session" /\ mgr_result'.ret) =>
                    /\ mgr_result'.id \notin DOMAIN manager'.sessions
                    /\ manager'.current_session =
                          IF manager.current_session = Some(mgr_result'.id)
                          THEN None ELSE manager.current_session
              /\ (mgr_result'.op = "switch_session" /\ mgr_result'.id \notin DOMAIN manager.sessions) =>
                    /\ ~mgr_result'.ret
                    /\ manager' = manager
      ]_vars

\* the current session was removed while another is stored
C35_Witness ==
    /\ mgr_result.op = "remove_session"
    /\ mgr_result.ret
    /\ manager.current_session = None
    /\ manager.sessions # <<>>

\* C36: an increment that returns an error leaves the count as it was, and
\* an increment that brings the count to the limit or below succeeds.
C36_RejectedIncrementKeepsCount ==
    [][ ((counter' # counter \/ ctr_result' # ctr_result) /\ ctr_result'.op = "increment") =>
          /\ (~ctr_result'.ok /\ ~ctr_result'.panic) =>
                counter'.current_count = counter.current_count
          /\ counter.current_count + ctr_result'.count <= counter.max_instructions =>
                ctr_result'.ok
      ]_vars

\* C37: a well-formed module, whatever comes before its code section, is
\* decoded, and the body of its function holds the opcode bytes: body_size
\* less the bytes of the locals header.
C37_BodyHoldsItsOpcodes ==
    \A prefix \in PrefixInputs, l \in LocalsInputs, opcodes \in OpcodeInputs :
        (/\ parse_result # NotParsed
         /\ parse_input = WASM_MAGIC \o WASM_VERSION \o prefix
                              \o CodeSectionOf(l.header, opcodes))
            => /\ parse_result.ok
               /\ parse_result.module.code = <<[locals |-> l.locals, body |-> opcodes]>>

\* the dimensions of a risk score whose level is not OK
RiskyDimensions(risk) ==
    {d \in {"memory_risk", "execution_risk", "syscall_risk", "complexity_risk"} :
        risk[d] # "OK"}

\* C38: after analyze, the recommendations hold one recommendation for each
\* dimension of the risk score that is not OK (memory, execution, syscall,
\* complexity), and one more when the overall level is Severe.
C38_RecommendationPerRisk ==
    sa_result.ok =>
        Len(sa_result.recommendations)
            >= Cardinality(RiskyDimensions(sa_result.risk_score))
               + (IF sa_result.risk_score.overall = "Severe" THEN 1 ELSE 0)

\* the types of the arguments handed to call_host_function: each a u32
ArgTypes(args) == [i \in 1 .. Len(args) |-> "I32"]

\* C39: a call of call_host_function with a name and arguments that the
\* declared ABI accepts (validate_function_call is Ok) is never answered with
\* the "Unknown host function" error.
C39_DeclaredFunctionsDispatched ==
    (/\ sb_result.op = "call_host_function"
     /\ validate_function_call(sb_result.name, ArgTypes(sb_result.args)).ok)
        => ~(/\ ~sb_result.ok
             /\ sb_result.err = Runtime("Unknown host function: " \o sb_result.name))

\* C40: whatever policies were registered, removed and made the default,
\* the default policy is the key of a stored policy and get_default_policy
\* does not panic; and set_default_policy with a name that is not stored
\* returns Err and leaves the default as it was.
C40_DefaultPolicyResolves ==
    /\ [](/\ policy_manager.default_policy \in DOMAIN policy_manager.policies
          /\ ~pm_result.panic)
    /\ [][(/\ pm_result'.op = "set_default_policy"
           /\ to_lowercase(pm_result'.name) \notin DOMAIN policy_manager.policies)
            => (/\ ~pm_result'.ok
                /\ policy_manager'.default_policy = policy_manager.default_policy)]_vars

\* the second half alone: an unknown name is refused and changes nothing
C40_UnknownNameRefused ==
    [][(/\ pm_result'.op = "set_default_policy"
        /\ to_lowercase(pm_result'.name) \notin DOMAIN policy_manager.policies)
         => (/\ ~pm_result'.ok
             /\ policy_manager'.default_policy = policy_manager.default_policy)]_vars
=============================================================================
